---- MODULE Spec2Model ----
(***************************************************************************)
(* A model of the blob-army runner (js/01C): the Renderer's two-pass       *)
(* depth-sorted draw, the Track's marker queue, the Gate and Enemy         *)
(* collision/effect contracts, the Game's per-frame collision pass, the    *)
(* game loop and Camera, the ObstacleSpawner and the Player's draw order.  *)
(*                                                                         *)
(* The variables fall into groups, one per component.  Each specification  *)
(* below drives one group and leaves the others at their idle values.      *)
(***************************************************************************)
EXTENDS Integers, Naturals, Sequences, FiniteSets, TLC

VARIABLES
    \* ---- Renderer / Entity3D ------------------------------------------
    ent,            \* entity objects: id -> [kind, z, markedForDeletion]
    nextEntityId,   \* number of entity objects constructed so far, plus 1
    gEntities,      \* Game.entities (sequence of entity ids)
    rEntities,      \* Renderer.entities (sequence of entity ids)
    renderInput,    \* Renderer.entities as render() saw it after the purge,
                    \*   each entry [id, z]
    sortedList,     \* the array gameEntities after its sort, entries [id, z]
    drawLog,        \* draw calls of the last render(), in order, [id, kind, z]
    \* ---- Track --------------------------------------------------------
    markerQueue,    \* Track.markerQueue
    nextMarkerZ,    \* Track.nextMarkerZ
    initialized,    \* Track.initialized
    trackOps,       \* what the last Track call did: [op, seeded, pops, pushes]
    \* ---- Gate.checkCollision taken alone ------------------------------
    cPlayer,        \* the player argument: [x, z]
    cBlobs,         \* player.swarmBlobs: sequence of [currentX, currentZ]
    cGate,          \* the gate: [x, z, width, consumed]
    cCamera,        \* the camera pose [x, z] at the time of the call
    cResult,        \* [called, value]: whether checkCollision was called,
                    \*   and the value the last call returned
    \* ---- Game / Player / Gate / Enemy ---------------------------------
    gstate,             \* Game.state
    blobCount,          \* Player.blobCount
    previousBlobCount,  \* Player.previousBlobCount
    swarmBlobs,         \* Player.swarmBlobs: sequence of [isCenter, dying, elapsed],
                        \*   elapsed = Date.now() - deathStartTime, capped at deathDuration
    gates,              \* the Gate entities: id -> [x, z, width, type, num, den, health, consumed]
                        \*   (value = num / den)
    enemyConsumed,      \* the Enemy entities: id -> Enemy.consumed
    effects,            \* per gate: how often its applyEffect assigned the blob count
    kills,              \* per enemy: how many blobs it marked dying
    lastApply,          \* the last direct Gate.applyEffect call
    lastCheck,          \* the last direct Gate.checkCollision call
    lastBlobCheck,      \* the last direct Enemy.checkBlobCollision call
    lastPass,           \* the collision pass of the last Game.update
    passIn,             \* the arguments of a direct Game.checkEnemyCollisions call:
                        \*   [swarm, consumed, ov]
    \* ---- Game loop, Camera ---------------------------------------------
    running,            \* Game.running
    rafPending,         \* requestAnimationFrame callbacks of gameLoop not yet fired
    world,              \* [state, player, camera, blobCount]: Game.state, the player's
                        \*   (x, z), Camera's (x, y, z, angle), Player.blobCount
    tickLog,            \* what the last gameLoop callback did
    \* ---- Direct calls of a function ------------------------------------
    callArgs,           \* the function called and its arguments
    callResult,         \* [done, value]: the value the call returned
    \* ---- ObstacleSpawner ------------------------------------------------
    obstacleQueue,      \* ObstacleSpawner.obstacleQueue: groups [obstacles, spawnZ]
    nextSpawnZ,         \* ObstacleSpawner.nextSpawnZ
    obstacleEntities,   \* the Gates and Enemies in Game.entities, each [id, kind, z]
    nextObstacleId,     \* number of obstacle objects constructed so far, plus 1
    spawnLog            \* what the last ObstacleSpawner call did

renderVars == <<ent, nextEntityId, gEntities, rEntities, renderInput, sortedList, drawLog>>
trackVars  == <<markerQueue, nextMarkerZ, initialized, trackOps>>
collideVars == <<cPlayer, cBlobs, cGate, cCamera, cResult>>
gameVars == <<gstate, blobCount, previousBlobCount, swarmBlobs, gates, enemyConsumed,
              effects, kills, lastApply, lastCheck, lastBlobCheck, lastPass, passIn>>
loopVars == <<running, rafPending, world, tickLog>>
callVars == <<callArgs, callResult>>
spawnVars == <<obstacleQueue, nextSpawnZ, obstacleEntities, nextObstacleId, spawnLog>>
vars == <<renderVars, trackVars, collideVars, gameVars, loopVars, callVars, spawnVars>>

(***************************************************************************)
(* Bounds of the model.                                                    *)
(***************************************************************************)
MaxEntities == 3        \* entity objects constructed in one run
MaxSwarm    == 2        \* swarm blobs handed to Gate.checkCollision
NumGates    == 1        \* Gate entities in the game
NumEnemies  == 2        \* Enemy entities handed to one collision pass
MaxBlobs    == 3        \* swarm blobs handed to one collision pass
GameEnemies == 1        \* Enemy entities in a game
MaxGameBlobs == 2       \* the blob count stays within -MaxGameBlobs..MaxGameBlobs in a game
MaxCallbacks == 2       \* pending requestAnimationFrame callbacks
MaxScroll   == 2        \* the player and the camera move at most 10 * MaxScroll forward,
                        \*   the player at most 30 * MaxScroll to either side
NumDrawn    == 2        \* entities drawn by one render
MaxTrackZ   == 400      \* the player of a track run advances up to this Z
MaxCount    == 10       \* the blob count stays within -MaxCount..MaxCount under direct Gate calls

(***************************************************************************)
(* Sequence helpers (Array.prototype.indexOf / splice); Array.prototype.    *)
(* filter is SelectSeq.                                                    *)
(***************************************************************************)
\* Array.prototype.indexOf, 1-based; 0 when absent (JS: -1).
IndexOf(s, x) ==
    IF \E i \in 1..Len(s) : s[i] = x
    THEN CHOOSE i \in 1..Len(s) : s[i] = x /\ \A j \in 1..(i-1) : s[j] # x
    ELSE 0

\* splice(index, 1) of the element at 1-based position i.
RemoveAt(s, i) == SubSeq(s, 1, i-1) \o SubSeq(s, i+1, Len(s))

\* indexOf + splice of Game.removeEntity / Renderer.removeEntity.
RemoveFirst(s, x) == IF IndexOf(s, x) > 0 THEN RemoveAt(s, IndexOf(s, x)) ELSE s

(***************************************************************************)
(* Renderer and Entity3D.                                                  *)
(***************************************************************************)
EntityIds   == 1..MaxEntities
EntityKinds == {"Track", "Gate"}
EntityZs    == {5, 10, 20}

FreeEntity == [kind |-> "Free", z |-> 0, markedForDeletion |-> FALSE]

\* Entity3D constructor: position set, markedForDeletion false.
NewEntity(k, z) == [kind |-> k, z |-> z, markedForDeletion |-> FALSE]

\* Entity3D.shouldDelete
shouldDelete(id) == ent[id].markedForDeletion

\* A comparator with the operands swapped: nearest first.
compareDepthAscending(a, b) == a.z - b.z

\* The comparator of gameEntities.sort: (a, b) => b.z - a.z.
\* a and b are [id, z] entries; a negative result puts a before b.
compareDepth(a, b) == b.z - a.z

RECURSIVE InsertSorted(_, _)
\* One step of a stable sort under compareDepth: x goes behind every element
\* it does not strictly precede (compareDepth(x, e) >= 0), so equal keys keep
\* their order.  Array.prototype.sort is stable (ECMAScript 2019).
InsertSorted(sorted, x) ==
    IF sorted = <<>> THEN <<x>>
    ELSE IF compareDepth(x, Head(sorted)) < 0
         THEN <<x>> \o sorted
         ELSE <<Head(sorted)>> \o InsertSorted(Tail(sorted), x)

RECURSIVE SortBy(_, _)
\* gameEntities.sort(...): a stable sort, built by inserting the elements in
\* array order.
SortBy(s, acc) ==
    IF s = <<>> THEN acc ELSE SortBy(Tail(s), InsertSorted(acc, Head(s)))

sortGameEntities(s) == SortBy(s, <<>>)

\* A filter that lets the Track through to the depth sort.
nonTrackUnfiltered(s) == s

\* this.entities.filter(e => e.constructor.name !== 'Track')
nonTrack(s) == SelectSeq(s, LAMBDA id : ent[id].kind # "Track")

\* this.entities.find(e => e.constructor.name === 'Track'): a one-element
\* sequence with the first Track, or the empty sequence.
findTrack(s) ==
    LET t == SelectSeq(s, LAMBDA id : ent[id].kind = "Track")
    IN  IF t = <<>> THEN <<>> ELSE <<Head(t)>>

\* A render that keeps the entities marked for deletion.
purgeNothing(s) == s

\* this.entities.filter(entity => !entity.shouldDelete())
purge(s) == SelectSeq(s, LAMBDA id : ~shouldDelete(id))

WithZ(s) == [i \in 1..Len(s) |-> [id |-> s[i], z |-> ent[s[i]].z]]
Drawn(s) == [i \in 1..Len(s) |-> [id |-> s[i].id, kind |-> ent[s[i].id].kind, z |-> s[i].z]]

\* The record of the last render() describes the frame just drawn; it is
\* dropped as soon as the collection or an entity changes again.
NoRender == renderInput' = <<>> /\ sortedList' = <<>> /\ drawLog' = <<>>

\* Game.addEntity: push on Game.entities and on Renderer.entities.
AddEntity(k, z) ==
    /\ nextEntityId <= MaxEntities
    /\ ent' = [ent EXCEPT ![nextEntityId] = NewEntity(k, z)]
    /\ gEntities' = Append(gEntities, nextEntityId)
    /\ rEntities' = Append(rEntities, nextEntityId)
    /\ nextEntityId' = nextEntityId + 1
    /\ NoRender

\* Game.removeEntity: splice out of Game.entities, then Renderer.removeEntity.
RemoveEntity(id) ==
    /\ ent[id].kind # "Free"
    /\ id \in {gEntities[i] : i \in 1..Len(gEntities)}
    /\ gEntities' = RemoveFirst(gEntities, id)
    /\ rEntities' = RemoveFirst(rEntities, id)
    /\ UNCHANGED <<ent, nextEntityId>>
    /\ NoRender

\* Entity3D.destroy
Destroy(id) ==
    /\ ent[id].kind # "Free"
    /\ ~ent[id].markedForDeletion
    /\ ent' = [ent EXCEPT ![id].markedForDeletion = TRUE]
    /\ UNCHANGED <<nextEntityId, gEntities, rEntities>>
    /\ NoRender

\* An entity's z changes between renders (Entity3D.setPosition / move, the
\* player's forward scroll).
MoveEntity(id, z) ==
    /\ ent[id].kind # "Free"
    /\ ent[id].z # z
    /\ ent' = [ent EXCEPT ![id].z = z]
    /\ UNCHANGED <<nextEntityId, gEntities, rEntities>>
    /\ NoRender

\* Renderer.render: purge, draw the Track, filter it out, sort, draw.
Render ==
    LET kept   == purge(rEntities)
        track  == findTrack(kept)
        sorted == sortGameEntities(WithZ(nonTrack(kept)))
    IN  /\ rEntities' = kept
        /\ renderInput' = WithZ(kept)
        /\ sortedList' = sorted
        /\ drawLog' = Drawn(WithZ(track)) \o Drawn(sorted)
        /\ UNCHANGED <<ent, nextEntityId, gEntities>>

RenderIdle ==
    /\ ent = [id \in EntityIds |-> FreeEntity]
    /\ nextEntityId = 1
    /\ gEntities = <<>>
    /\ rEntities = <<>>
    /\ renderInput = <<>>
    /\ sortedList = <<>>
    /\ drawLog = <<>>

(***************************************************************************)
(* Track (marker queue).                                                   *)
(***************************************************************************)
maxMarkers      == 50       \* this.maxMarkers
markerInterval  == 100      \* 1 / GameParameters.METERS_PER_PIXEL
cleanupDistance == 500      \* 5 / GameParameters.METERS_PER_PIXEL

MaxZSteps == 40             \* player Z inputs range over -MaxZSteps..MaxZSteps half-intervals

\* The player Z values handed to Track.update: multiples of half a marker
\* interval and their successors, on both sides of the origin.
TrackPlayerZs == {50 * k + d : k \in -MaxZSteps..MaxZSteps, d \in {0, 1}}

\* Math.floor(playerZ / markerInterval) * markerInterval - 5 * markerInterval
firstMarkerZ(playerZ) == (playerZ \div markerInterval) * markerInterval - (5 * markerInterval)

\* Track.initializeMarkers: maxMarkers pushes, nextMarkerZ advancing by the
\* interval after each.  Returns the new [queue, next].
initializeMarkers(queue, playerZ) ==
    [queue |-> queue \o [i \in 1..maxMarkers |-> firstMarkerZ(playerZ) + (i - 1) * markerInterval],
     next  |-> firstMarkerZ(playerZ) + maxMarkers * markerInterval]

\* An updateMarkerQueue that drops the oldest marker without appending one.
updateMarkerQueueNoPush(queue, next, playerZ) ==
    IF queue = <<>> THEN [queue |-> queue, next |-> next, pops |-> 0, pushes |-> 0]
    ELSE IF playerZ - queue[1] > cleanupDistance
         THEN [queue |-> Tail(queue), next |-> next + markerInterval, pops |-> 1, pushes |-> 0]
         ELSE [queue |-> queue, next |-> next, pops |-> 0, pushes |-> 0]

\* An updateMarkerQueue that never retires a marker.
updateMarkerQueueNoShift(queue, next, playerZ) ==
    [queue |-> queue, next |-> next, pops |-> 0, pushes |-> 0]

\* Track.updateMarkerQueue: when the oldest marker is more than
\* cleanupDistance behind the player, shift it and push nextMarkerZ.
updateMarkerQueue(queue, next, playerZ) ==
    IF queue = <<>> THEN [queue |-> queue, next |-> next, pops |-> 0, pushes |-> 0]
    ELSE IF playerZ - queue[1] > cleanupDistance
         THEN [queue |-> Append(Tail(queue), next), next |-> next + markerInterval,
               pops |-> 1, pushes |-> 1]
         ELSE [queue |-> queue, next |-> next, pops |-> 0, pushes |-> 0]

\* Track.update with gameState.player set, the player at playerZ.
TrackUpdate(playerZ) ==
    LET seeded == IF initialized THEN [queue |-> markerQueue, next |-> nextMarkerZ]
                  ELSE initializeMarkers(markerQueue, playerZ)
        after  == updateMarkerQueue(seeded.queue, seeded.next, playerZ)
    IN  /\ markerQueue' = after.queue
        /\ nextMarkerZ' = after.next
        /\ initialized' = TRUE
        /\ trackOps' = [op |-> "update", seeded |-> ~initialized,
                        pops |-> after.pops, pushes |-> after.pushes]

\* Track.update with no player in gameState: the early return.
TrackUpdateNoPlayer ==
    /\ trackOps' = [op |-> "update", seeded |-> FALSE, pops |-> 0, pushes |-> 0]
    /\ UNCHANGED <<markerQueue, nextMarkerZ, initialized>>

\* Track.reset
TrackReset ==
    /\ markerQueue' = <<>>
    /\ nextMarkerZ' = 0
    /\ initialized' = FALSE
    /\ trackOps' = [op |-> "reset", seeded |-> FALSE, pops |-> 0, pushes |-> 0]

TrackIdle ==
    /\ markerQueue = <<>>
    /\ nextMarkerZ = 0
    /\ initialized = FALSE
    /\ trackOps = [op |-> "new", seeded |-> FALSE, pops |-> 0, pushes |-> 0]

(***************************************************************************)
(* Gate.checkCollision (world-space box test).                             *)
(***************************************************************************)
GATE_WIDTH == 200       \* GameParameters.GATE_WIDTH
gateDepth  == 10        \* const gateDepth = 10 in Gate.checkCollision

\* Positions on both sides of every edge of the box of a gate at x = 0 or
\* x = 100, z = 0: |dz| < 10 and x within +/- 100 of the gate.
CollideXs == {-101, -100, 0, 200, 201, 500}
CollideZs == {-10, -9, 0, 10}
CollidePoints == [x : CollideXs, z : CollideZs]
CollideBlobs  == [currentX : {-101, -100, 0, 500}, currentZ : {-10, 0}]
CollideGates  == [x : {0, 100}, z : {0}, width : {GATE_WIDTH}, consumed : BOOLEAN]
CameraPoses   == [x : {0, 200}, z : {-133}]

Abs(n) == IF n < 0 THEN -n ELSE n

\* The test applied to the player's centre: Math.abs(player.z - this.z) <
\* gateDepth, then player.x within [this.x - halfWidth, this.x + halfWidth].
centreHits(g, player) ==
    LET halfWidth == g.width \div 2
    IN  IF Abs(player.z - g.z) < gateDepth
        THEN player.x >= g.x - halfWidth /\ player.x <= g.x + halfWidth
        ELSE FALSE

RECURSIVE anyBlobHits(_, _)
\* for (const blob of player.swarmBlobs): the first blob inside the Z range
\* and the X range returns true; false when the loop runs out.
anyBlobHits(g, blobs) ==
    LET halfWidth == g.width \div 2
    IN  IF blobs = <<>> THEN FALSE
        ELSE LET blob == Head(blobs)
                 isInZRange == Abs(blob.currentZ - g.z) < gateDepth
                 isInXRange == blob.currentX >= g.x - halfWidth /\ blob.currentX <= g.x + halfWidth
             IN  IF isInZRange /\ isInXRange THEN TRUE ELSE anyBlobHits(g, Tail(blobs))

\* A checkCollision that looks at the player's centre only.
checkCollisionCentreOnly(g, player, blobs) ==
    IF g.consumed THEN FALSE ELSE centreHits(g, player)

\* Gate.checkCollision(player)
checkCollision(g, player, blobs) ==
    IF g.consumed THEN FALSE
    ELSE IF centreHits(g, player) THEN TRUE
    ELSE anyBlobHits(g, blobs)

\* One call of gate.checkCollision(player).
CollideCheck ==
    /\ cResult' = [called |-> TRUE, value |-> checkCollision(cGate, cPlayer, cBlobs)]
    /\ UNCHANGED <<cPlayer, cBlobs, cGate, cCamera>>

\* The camera takes another pose (Camera.followTarget / setPosition).
CollideMoveCamera(pose) ==
    /\ pose # cCamera
    /\ cCamera' = pose
    /\ UNCHANGED <<cPlayer, cBlobs, cGate, cResult>>

CollideIdle ==
    /\ cPlayer = [x |-> 0, z |-> 0]
    /\ cBlobs = <<>>
    /\ cGate = [x |-> 0, z |-> 0, width |-> GATE_WIDTH, consumed |-> FALSE]
    /\ cCamera = [x |-> 0, z |-> -133]
    /\ cResult = [called |-> FALSE, value |-> FALSE]

\* The arguments of the call: any player position, any swarm of up to
\* MaxSwarm blobs, a gate in either lane, consumed or not.
CollideInputs ==
    /\ cPlayer \in CollidePoints
    /\ cBlobs \in UNION {[1..n -> CollideBlobs] : n \in 0..MaxSwarm}
    /\ cGate \in CollideGates
    /\ cCamera = [x |-> 0, z |-> -133]
    /\ cResult = [called |-> FALSE, value |-> FALSE]

(***************************************************************************)
(* Gate: health and effect.                                                *)
(***************************************************************************)
maxHealth == 20         \* this.maxHealth = 20; this.health = 20

GateIds  == 1..NumGates
EnemyIds == 1..NumEnemies
GameEnemyIds == 1..GameEnemies

\* new Gate(x, 0, z, value, type): unconsumed, full health.
NewGate(x, z, type, num, den) ==
    [x |-> x, z |-> z, width |-> GATE_WIDTH, type |-> type, num |-> num, den |-> den,
     health |-> maxHealth, consumed |-> FALSE]

\* Rounding the product up instead of down.
ceilMul(count, g) == -((-(count * g.num)) \div g.den)

\* Math.floor(oldCount * this.value), the value being num / den, den > 0.
\* (\div rounds towards minus infinity, as Math.floor does.)
floorMul(count, g) == (count * g.num) \div g.den

\* Math.floor(this.value)
floorValue(g) == g.num \div g.den

\* Player.addBlobs without the clamp.
addBlobsUnclamped(count, n) == count + n

\* Player.addBlobs: add, then clamp at 0.
addBlobs(count, n) == IF count + n < 0 THEN 0 ELSE count + n

\* applyEffect without the final this.consumed = true.
applyEffectUnmarked(g, count) ==
    IF g.consumed \/ g.health > 0
    THEN [gate |-> g, count |-> count, assigned |-> FALSE]
    ELSE IF g.type = "multiplication"
         THEN [gate |-> g, count |-> (count * g.num) \div g.den, assigned |-> TRUE]
         ELSE [gate |-> g, count |-> addBlobs(count, g.num \div g.den), assigned |-> TRUE]

\* Gate.applyEffect(player): returns the gate, the player's blob count and
\* whether the count was assigned.
\* applyEffect without the test of the gate's health.
applyEffectIgnoringHealth(g, count) ==
    IF g.consumed
    THEN [gate |-> g, count |-> count, assigned |-> FALSE]
    ELSE IF g.type = "multiplication"
         THEN [gate |-> [g EXCEPT !.consumed = TRUE], count |-> floorMul(count, g),
               assigned |-> TRUE]
         ELSE [gate |-> [g EXCEPT !.consumed = TRUE], count |-> addBlobs(count, floorValue(g)),
               assigned |-> TRUE]

applyEffect(g, count) ==
    IF g.consumed \/ g.health > 0
    THEN [gate |-> g, count |-> count, assigned |-> FALSE]
    ELSE IF g.type = "multiplication"
         THEN [gate |-> [g EXCEPT !.consumed = TRUE], count |-> floorMul(count, g),
               assigned |-> TRUE]
         ELSE [gate |-> [g EXCEPT !.consumed = TRUE], count |-> addBlobs(count, floorValue(g)),
               assigned |-> TRUE]

\* Gate.takeDamage(damage)
takeDamage(g, damage) ==
    IF g.health <= 0 THEN g
    ELSE [g EXCEPT !.health = IF g.health - damage < 0 THEN 0 ELSE g.health - damage]

\* The player argument of checkCollision when the whole swarm sits at the
\* centre position pos.
CentreSwarm(pos) == <<[currentX |-> pos.x, currentZ |-> pos.z]>>

RECURSIVE gatePass(_, _, _, _, _)
\* Game.checkGateCollisions: for every Gate in entity order, from gate i on,
\* checkCollision and, when it is true, applyEffect.
gatePass(i, gs, count, eff, pos) ==
    IF i > NumGates THEN [gates |-> gs, count |-> count, effects |-> eff]
    ELSE IF checkCollision(gs[i], pos, CentreSwarm(pos))
         THEN LET r == applyEffect(gs[i], count)
              IN  gatePass(i + 1, [gs EXCEPT ![i] = r.gate], r.count,
                           [eff EXCEPT ![i] = IF r.assigned THEN @ + 1 ELSE @], pos)
         ELSE gatePass(i + 1, gs, count, eff, pos)

(***************************************************************************)
(* Player swarm, Enemy, and the Game's per-frame update.                   *)
(***************************************************************************)
deathDuration == 500    \* deathDuration: 500 (milliseconds)

Min(a, b) == IF a < b THEN a ELSE b
Max(a, b) == IF a > b THEN a ELSE b

\* A blob pushed by addNewBlobsToSwarm.
NewBlob == [isCenter |-> FALSE, dying |-> FALSE, elapsed |-> 0]

\* Array.prototype.splice(start, deleteCount) with 0-based start: a negative
\* start counts from the end, both arguments are clamped to the array.
splice(s, start, deleteCount) ==
    LET len   == Len(s)
        from  == IF start < 0 THEN Max(len + start, 0) ELSE Min(start, len)
        count == Min(Max(deleteCount, 0), len - from)
    IN  SubSeq(s, 1, from) \o SubSeq(s, from + count + 1, len)

\* Player.addNewBlobsToSwarm(count)
addNewBlobsToSwarm(swarm, count) == swarm \o [i \in 1..count |-> NewBlob]

\* The swarm part of Player.update: follow a changed blobCount.
playerUpdate(swarm, count, prev) ==
    IF count # prev
    THEN [swarm |-> IF count - prev > 0 THEN addNewBlobsToSwarm(swarm, count - prev)
                    ELSE splice(swarm, count, prev - count),
          previousBlobCount |-> count]
    ELSE [swarm |-> swarm, previousBlobCount |-> prev]

\* Date.now() moved on by dt: every running death animation is dt older.
elapse(swarm, dt) ==
    [i \in 1..Len(swarm) |->
        IF swarm[i].dying
        THEN [swarm[i] EXCEPT !.elapsed = Min(@ + dt, deathDuration)]
        ELSE swarm[i]]

\* Player.killBlob(index), index i being 1-based here.
killBlob(swarm, i) ==
    IF i >= 1 /\ i <= Len(swarm)
    THEN [swarm EXCEPT ![i] = [@ EXCEPT !.dying = TRUE, !.elapsed = 0]]
    ELSE swarm

\* Enemy.neutralize() left without effect.
neutralizeNothing(consumed) == consumed

\* Enemy.neutralize()
neutralize(consumed) == TRUE

\* Enemy.isNeutralized()
isNeutralized(consumed) == consumed

\* Enemy.checkBlobCollision: false on a consumed enemy, otherwise the result
\* of the screen-space box and pixel-mask test, which is an input here.
checkBlobCollision(consumed, overlap) == IF consumed THEN FALSE ELSE overlap

\* The loop over blobs never skipping one.
blobSkippedNever(swarm, chosen, i) == FALSE

\* if (blobsToKill.has(i) || player.swarmBlobs[i].dying) continue;
blobSkipped(swarm, chosen, i) == i \in chosen \/ swarm[i].dying

RECURSIVE firstHit(_, _, _, _, _)
\* The for loop of one enemy, from blob i downwards: the blob it hits, or 0.
firstHit(swarm, chosen, consumed, ov, i) ==
    IF i < 1 THEN 0
    ELSE IF blobSkipped(swarm, chosen, i) THEN firstHit(swarm, chosen, consumed, ov, i - 1)
    ELSE IF checkBlobCollision(consumed, i \in ov) THEN i
    ELSE firstHit(swarm, chosen, consumed, ov, i - 1)

RECURSIVE enemyLoop(_, _, _)
\* enemies.forEach(...) of checkEnemyCollisions over the enemies es.
enemyLoop(es, ov, st) ==
    IF es = <<>> THEN st
    ELSE LET e == Head(es)
             i == firstHit(st.swarm, st.chosen, st.consumed[e], ov[e], Len(st.swarm))
         IN  IF i = 0 THEN enemyLoop(Tail(es), ov, st)
             ELSE enemyLoop(Tail(es), ov,
                    [swarm    |-> killBlob(st.swarm, i),
                     chosen   |-> st.chosen \cup {i},
                     consumed |-> [st.consumed EXCEPT ![e] = neutralize(@)],
                     kills    |-> [st.kills EXCEPT ![e] = @ + 1],
                     killed   |-> Append(st.killed, [enemy |-> e, blob |-> i])])

RECURSIVE cleanupFrom(_, _)
\* The clean-up loop of checkEnemyCollisions, from blob i downwards.
cleanupFrom(i, st) ==
    IF i < 1 THEN st
    ELSE IF st.swarm[i].dying /\ st.swarm[i].elapsed >= deathDuration
         THEN LET rest == RemoveAt(st.swarm, i)
              IN  cleanupFrom(i - 1, [swarm |-> rest, blobCount |-> Len(rest),
                                      previousBlobCount |-> Len(rest),
                                      removed |-> st.removed + 1])
         ELSE cleanupFrom(i - 1, st)

\* The enemies handed to the loop: the Enemy entities not neutralized.
liveEnemies(consumed) ==
    SelectSeq([e \in 1..Len(consumed) |-> e], LAMBDA e : ~isNeutralized(consumed[e]))

\* Game.checkEnemyCollisions(player)
checkEnemyCollisions(swarm, count, prev, consumed, kls, ov) ==
    IF Len(swarm) = 0
    THEN [swarm |-> swarm, blobCount |-> count, previousBlobCount |-> prev,
          consumed |-> consumed, kills |-> kls, killed |-> <<>>,
          countBeforeCleanup |-> count, removed |-> 0]
    ELSE LET hit == enemyLoop(liveEnemies(consumed), ov,
                              [swarm |-> swarm, chosen |-> {}, consumed |-> consumed,
                               kills |-> kls, killed |-> <<>>])
             cl  == cleanupFrom(Len(hit.swarm),
                                [swarm |-> hit.swarm, blobCount |-> count,
                                 previousBlobCount |-> prev, removed |-> 0])
         IN  [swarm |-> cl.swarm, blobCount |-> cl.blobCount,
              previousBlobCount |-> cl.previousBlobCount,
              consumed |-> hit.consumed, kills |-> hit.kills, killed |-> hit.killed,
              countBeforeCleanup |-> count, removed |-> cl.removed]

RECURSIVE damageTimes(_, _)
\* n bullets hitting the gate: gate.takeDamage(1) n times.
damageTimes(g, n) == IF n = 0 THEN g ELSE damageTimes(takeDamage(g, 1), n - 1)

\* Game.checkBulletGateCollisions: hits[g] active bullets overlap gate g;
\* consumed gates are left out.
checkBulletGateCollisions(gs, hits) ==
    [g \in GateIds |-> IF gs[g].consumed THEN gs[g] ELSE damageTimes(gs[g], hits[g])]

\* The inputs of the model: gate positions and values, damage amounts, and
\* the player positions handed to the collision checks.
GateLane(g) == IF g % 2 = 1 THEN -100 ELSE 100
GateValues ==
    { [type |-> "addition",       num |-> 3,  den |-> 1],
      [type |-> "addition",       num |-> 5,  den |-> 2],
      [type |-> "addition",       num |-> -7, den |-> 2],
      [type |-> "multiplication", num |-> 2,  den |-> 1],
      [type |-> "multiplication", num |-> 3,  den |-> 2],
      [type |-> "multiplication", num |-> -1, den |-> 1] }
DamageAmounts == {10, 25}
PassPositions == { [x |-> 0, z |-> 0], [x |-> -200, z |-> 0], [x |-> 0, z |-> 50] }
\* The gates of a game: x2 in the left lane, -1 in the right lane.
GameGateValue(g) ==
    IF g % 2 = 1 THEN [type |-> "multiplication", num |-> 2, den |-> 1]
    ELSE [type |-> "addition", num |-> -1, den |-> 1]
ClockSteps == {250}         \* milliseconds between two frames
HitCounts  == {0, 20}       \* bullets hitting one gate in one frame

\* new Player(): blobCount 1, a swarm holding the centre blob.
CentreBlob == [isCenter |-> TRUE, dying |-> FALSE, elapsed |-> 0]

NoApply == [called |-> FALSE, gate |-> 1, before |-> 0, after |-> 0,
            wasConsumed |-> FALSE, health |-> 0]
NoCheck == [called |-> FALSE, gate |-> 1, inBox |-> FALSE, wasConsumed |-> FALSE,
            value |-> FALSE]
NoBlobCheck == [called |-> FALSE, enemy |-> 1, overlap |-> FALSE, wasConsumed |-> FALSE,
                value |-> FALSE]
\* unchecked: what the player overlapped in a tick that checked no collision
NoPass == [ran |-> FALSE, killed |-> <<>>, gateAssigned |-> FALSE, consumedTouch |-> FALSE,
           countBeforeCleanup |-> 0, removed |-> 0, countAfter |-> 0,
           unchecked |-> [gate |-> FALSE, bullet |-> FALSE, enemy |-> FALSE]]

\* Whether an enemy already neutralized overlaps a blob that is not dying.
consumedTouches(swarm, consumed, ov) ==
    \E e \in DOMAIN consumed : consumed[e] /\ \E i \in ov[e] : ~swarm[i].dying
NoPassIn == [swarm |-> <<>>, consumed |-> [e \in EnemyIds |-> FALSE],
             ov |-> [e \in EnemyIds |-> {}]]

\* gate.takeDamage(damage), called directly.
GateTakeDamage(g, damage) ==
    /\ gates' = [gates EXCEPT ![g] = takeDamage(gates[g], damage)]
    /\ UNCHANGED <<gstate, blobCount, previousBlobCount, swarmBlobs, enemyConsumed,
                   effects, kills, lastApply, lastCheck, lastBlobCheck, lastPass, passIn>>

\* gate.applyEffect(player), called directly.
GateApplyEffect(g) ==
    LET r == applyEffect(gates[g], blobCount)
    IN  /\ r.count \in -MaxCount..MaxCount
        /\ gates' = [gates EXCEPT ![g] = r.gate]
        /\ blobCount' = r.count
        /\ effects' = [effects EXCEPT ![g] = IF r.assigned THEN @ + 1 ELSE @]
        /\ lastApply' = [called |-> TRUE, gate |-> g, before |-> blobCount,
                         after |-> r.count, wasConsumed |-> gates[g].consumed,
                         health |-> gates[g].health]
        /\ UNCHANGED <<gstate, previousBlobCount, swarmBlobs, enemyConsumed, kills,
                       lastCheck, lastBlobCheck, lastPass, passIn>>

\* gate.checkCollision(player), called directly.
GateCheckCollision(g, pos) ==
    /\ lastCheck' = [called |-> TRUE, gate |-> g,
                     inBox |-> centreHits(gates[g], pos),
                     wasConsumed |-> gates[g].consumed,
                     value |-> checkCollision(gates[g], pos, CentreSwarm(pos))]
    /\ UNCHANGED <<gstate, blobCount, previousBlobCount, swarmBlobs, gates, enemyConsumed,
                   effects, kills, lastApply, lastBlobCheck, lastPass, passIn>>

\* game.checkGateCollisions(player), called directly.
GateCollisionPass(pos) ==
    LET r == gatePass(1, gates, blobCount, effects, pos)
    IN  /\ r.count \in -MaxCount..MaxCount
        /\ gates' = r.gates
        /\ blobCount' = r.count
        /\ effects' = r.effects
        /\ UNCHANGED <<gstate, previousBlobCount, swarmBlobs, enemyConsumed, kills,
                       lastApply, lastCheck, lastBlobCheck, lastPass, passIn>>

\* The Game after construction with its Player, Gates and Enemies added.
GameIdle ==
    /\ gstate = "PREPLAY"
    /\ blobCount = 1
    /\ previousBlobCount = 1
    /\ swarmBlobs = <<CentreBlob>>
    /\ gates = [g \in GateIds |-> NewGate(GateLane(g), 0, "addition", 3, 1)]
    /\ enemyConsumed = [e \in EnemyIds |-> FALSE]
    /\ effects = [g \in GateIds |-> 0]
    /\ kills = [e \in EnemyIds |-> 0]
    /\ lastApply = NoApply
    /\ lastCheck = NoCheck
    /\ lastBlobCheck = NoBlobCheck
    /\ lastPass = NoPass
    /\ passIn = NoPassIn

\* Gates of any value in front of a player whose count earlier effects left
\* anywhere in 0..5.
GateInputs ==
    /\ gstate = "PREPLAY"
    /\ blobCount \in 0..5
    /\ previousBlobCount = 1
    /\ swarmBlobs = <<CentreBlob>>
    /\ \E v \in [GateIds -> GateValues] :
          gates = [g \in GateIds |-> NewGate(GateLane(g), 0, v[g].type, v[g].num, v[g].den)]
    /\ enemyConsumed = [e \in EnemyIds |-> FALSE]
    /\ effects = [g \in GateIds |-> 0]
    /\ kills = [e \in EnemyIds |-> 0]
    /\ lastApply = NoApply
    /\ lastCheck = NoCheck
    /\ lastBlobCheck = NoBlobCheck
    /\ lastPass = NoPass
    /\ passIn = NoPassIn

\* Game.update, after the three collision checks of a PLAYING frame:
\* if (player.getBlobCount() <= 0) this.gameOver();
stateAfterChecksNegativeOnly(count) == IF count < 0 THEN "GAME_OVER" ELSE "PLAYING"

stateAfterChecks(count) == IF count <= 0 THEN "GAME_OVER" ELSE "PLAYING"

\* One frame of Game.update: dt milliseconds after the last one, with the
\* player at pos, hits[g] bullets on gate g, and enemy e overlapping the
\* blob touch[e] (0: none).
\* A tick that checks no collisions claims to have checked them.
collisionsCheckedAlways(state) == TRUE

\* if (this.state === 'PLAYING' && player): the guard of the collision checks
collisionsChecked(state) == state = "PLAYING"

GameTick(pos, dt, hits) ==
    LET aged == elapse(swarmBlobs, dt)
        up   == playerUpdate(aged, blobCount, previousBlobCount)
    IN  IF collisionsChecked(gstate)
        THEN \E touch \in [DOMAIN enemyConsumed -> 0..Len(up.swarm)] :
             LET ov == [e \in DOMAIN enemyConsumed |->
                           IF touch[e] = 0 THEN {} ELSE {touch[e]}]
                 gp == gatePass(1, gates, blobCount, effects, pos)
                 ep == checkEnemyCollisions(up.swarm, gp.count, up.previousBlobCount,
                                            enemyConsumed, kills, ov)
             IN  /\ gp.count \in -MaxGameBlobs..MaxGameBlobs
                 /\ Len(up.swarm) <= MaxGameBlobs
                 /\ swarmBlobs' = ep.swarm
                 /\ blobCount' = ep.blobCount
                 /\ previousBlobCount' = ep.previousBlobCount
                 /\ gates' = checkBulletGateCollisions(gp.gates, hits)
                 /\ effects' = gp.effects
                 /\ enemyConsumed' = ep.consumed
                 /\ kills' = ep.kills
                 /\ gstate' = stateAfterChecks(ep.blobCount)
                 /\ lastPass' =
                      [ran |-> TRUE,
                       killed |-> ep.killed,
                       gateAssigned |-> gp.effects # effects,
                       consumedTouch |-> consumedTouches(up.swarm, enemyConsumed, ov),
                       countBeforeCleanup |-> ep.countBeforeCleanup,
                       removed |-> ep.removed,
                       countAfter |-> ep.blobCount]
                 /\ UNCHANGED <<lastApply, lastCheck, lastBlobCheck, passIn>>
        ELSE \E touching \in BOOLEAN :      \* a blob overlaps an enemy
             /\ Len(up.swarm) <= MaxGameBlobs
             /\ swarmBlobs' = up.swarm
             /\ previousBlobCount' = up.previousBlobCount
             /\ lastPass' = [NoPass EXCEPT !.unchecked =
                                [gate   |-> \E g \in GateIds : centreHits(gates[g], pos),
                                 bullet |-> \E g \in GateIds : hits[g] > 0,
                                 enemy  |-> touching]]
             /\ UNCHANGED <<gstate, blobCount, gates, enemyConsumed, effects, kills,
                            lastApply, lastCheck, lastBlobCheck, passIn>>

\* Game.startPlaying(): no entity of this group has a reset().
StartPlaying ==
    /\ gstate # "PLAYING"
    /\ gstate' = "PLAYING"
    /\ UNCHANGED <<blobCount, previousBlobCount, swarmBlobs, gates, enemyConsumed,
                   effects, kills, lastApply, lastCheck, lastBlobCheck, lastPass, passIn>>

\* Game.enterPreplay()
EnterPreplay ==
    /\ gstate # "PREPLAY"
    /\ gstate' = "PREPLAY"
    /\ UNCHANGED <<blobCount, previousBlobCount, swarmBlobs, gates, enemyConsumed,
                   effects, kills, lastApply, lastCheck, lastBlobCheck, lastPass, passIn>>

\* enemy.checkBlobCollision(blob, ...), called directly.
EnemyCheckBlobCollision(e, overlap) ==
    /\ lastBlobCheck' = [called |-> TRUE, enemy |-> e, overlap |-> overlap,
                         wasConsumed |-> enemyConsumed[e],
                         value |-> checkBlobCollision(enemyConsumed[e], overlap)]
    /\ UNCHANGED <<gstate, blobCount, previousBlobCount, swarmBlobs, gates, enemyConsumed,
                   effects, kills, lastApply, lastCheck, lastPass, passIn>>

\* The Game with its Player, Gates of generated values, and Enemies.
GameInputs ==
    /\ gstate = "PREPLAY"
    /\ blobCount = 1
    /\ previousBlobCount = 1
    /\ swarmBlobs = <<CentreBlob>>
    /\ gates = [g \in GateIds |->
                   NewGate(GateLane(g), 0, GameGateValue(g).type, GameGateValue(g).num,
                           GameGateValue(g).den)]
    /\ enemyConsumed = [e \in GameEnemyIds |-> FALSE]
    /\ effects = [g \in GateIds |-> 0]
    /\ kills = [e \in GameEnemyIds |-> 0]
    /\ lastApply = NoApply
    /\ lastCheck = NoCheck
    /\ lastBlobCheck = NoBlobCheck
    /\ lastPass = NoPass
    /\ passIn = NoPassIn

\* game.checkEnemyCollisions(player), called directly on the swarm, enemies
\* and overlaps of passIn.
EnemyCollisionPass ==
    LET ep == checkEnemyCollisions(swarmBlobs, blobCount, previousBlobCount,
                                   enemyConsumed, kills, passIn.ov)
    IN  /\ ~lastPass.ran
        /\ swarmBlobs' = ep.swarm
        /\ blobCount' = ep.blobCount
        /\ previousBlobCount' = ep.previousBlobCount
        /\ enemyConsumed' = ep.consumed
        /\ kills' = ep.kills
        /\ lastPass' = [ran |-> TRUE, killed |-> ep.killed, gateAssigned |-> FALSE,
                        consumedTouch |->
                            consumedTouches(swarmBlobs, enemyConsumed, passIn.ov),
                        countBeforeCleanup |-> ep.countBeforeCleanup,
                        removed |-> ep.removed, countAfter |-> ep.blobCount]
        /\ UNCHANGED <<gstate, gates, effects, lastApply, lastCheck, lastBlobCheck, passIn>>

\* A swarm of n blobs behind its centre blob, any of them in its death
\* animation.
PassSwarms ==
    UNION { { [i \in 1..n |-> [isCenter |-> (i = 1), dying |-> d[i],
                               elapsed |-> IF d[i] THEN 250 ELSE 0]] :
              d \in [1..n -> BOOLEAN] } : n \in 0..MaxBlobs }

\* A mid-game frame: any swarm, any enemies, any overlaps between them.
PassInputs ==
    /\ gstate = "PLAYING"
    /\ swarmBlobs \in PassSwarms
    /\ blobCount = Len(swarmBlobs)
    /\ previousBlobCount = Len(swarmBlobs)
    /\ gates = [g \in GateIds |-> NewGate(GateLane(g), 0, "addition", 3, 1)]
    /\ enemyConsumed \in [EnemyIds -> BOOLEAN]
    /\ effects = [g \in GateIds |-> 0]
    /\ kills = [e \in EnemyIds |-> IF enemyConsumed[e] THEN 1 ELSE 0]
    /\ lastApply = NoApply
    /\ lastCheck = NoCheck
    /\ lastBlobCheck = NoBlobCheck
    /\ lastPass = NoPass
    /\ \E ov \in [EnemyIds -> SUBSET (1..Len(swarmBlobs))] :
          passIn = [swarm |-> swarmBlobs, consumed |-> enemyConsumed, ov |-> ov]

TRACK_WIDTH == 400              \* GameParameters.TRACK_WIDTH
PLAYER_MOVEMENT_SPEED == 300    \* GameParameters.PLAYER_MOVEMENT_SPEED
TicksPerSecond == 100           \* deltaTime is counted in hundredths of a second

\* let moveDirection = 0; left: -= 1; right: += 1
moveDirection(left, right) == (IF left THEN -1 ELSE 0) + (IF right THEN 1 ELSE 0)

\* The movement without the clamp to the track.
movePlayerUnclamped(x, left, right, dt) ==
    IF moveDirection(left, right) # 0
    THEN x + (moveDirection(left, right) * PLAYER_MOVEMENT_SPEED * dt) \div TicksPerSecond
    ELSE x

\* The movement part of Player.update: x after the update.
movePlayer(x, left, right, dt) ==
    IF moveDirection(left, right) # 0
    THEN Max(-(TRACK_WIDTH \div 2),
             Min(TRACK_WIDTH \div 2,
                 x + (moveDirection(left, right) * PLAYER_MOVEMENT_SPEED * dt)
                       \div TicksPerSecond))
    ELSE x

\* player.update(deltaTime, gameState) with an input manager, called
\* directly: the swarm follows a changed blobCount, then the player moves by
\* the keys held.  The call's arguments and what it leaves are recorded.
PlayerUpdate(left, right, dt) ==
    LET up == playerUpdate(swarmBlobs, blobCount, previousBlobCount)
        x  == movePlayer(world.player.x, left, right, dt)
    IN  /\ swarmBlobs' = up.swarm
        /\ previousBlobCount' = up.previousBlobCount
        /\ world' = [world EXCEPT !.player.x = x]
        /\ callArgs' = [fn |-> "Player.update", blobCount |-> blobCount,
                        previousBlobCount |-> previousBlobCount,
                        swarm |-> swarmBlobs, x |-> world.player.x,
                        left |-> left, right |-> right, dt |-> dt]
        /\ callResult' = [done |-> TRUE,
                          value |-> [length |-> Len(up.swarm), blobCount |-> blobCount,
                                     swarm |-> up.swarm, x |-> x]]
        /\ UNCHANGED <<gstate, blobCount, gates, enemyConsumed, effects, kills,
                       lastApply, lastCheck, lastBlobCheck, lastPass, passIn,
                       running, rafPending, tickLog>>

\* game.checkEnemyCollisions(player), called dt milliseconds after the last
\* frame, enemy e overlapping the blob touch[e] (0: none).
EnemyFramePass(dt, touch) ==
    LET aged == elapse(swarmBlobs, dt)
        ov   == [e \in DOMAIN enemyConsumed |->
                    IF touch[e] = 0 THEN {} ELSE {touch[e]}]
        ep   == checkEnemyCollisions(aged, blobCount, previousBlobCount,
                                     enemyConsumed, kills, ov)
    IN  /\ swarmBlobs' = ep.swarm
        /\ blobCount' = ep.blobCount
        /\ previousBlobCount' = ep.previousBlobCount
        /\ enemyConsumed' = ep.consumed
        /\ kills' = ep.kills
        /\ lastPass' = [ran |-> TRUE, killed |-> ep.killed, gateAssigned |-> FALSE,
                        consumedTouch |-> consumedTouches(aged, enemyConsumed, ov),
                        countBeforeCleanup |-> ep.countBeforeCleanup,
                        removed |-> ep.removed, countAfter |-> ep.blobCount]
        /\ UNCHANGED <<gstate, gates, effects, lastApply, lastCheck, lastBlobCheck, passIn>>

\* A new Player in front of gates of any value that bullets have opened, and
\* enemies.
SwarmInputs ==
    /\ gstate = "PLAYING"
    /\ blobCount = 1
    /\ previousBlobCount = 1
    /\ swarmBlobs = <<CentreBlob>>
    /\ \E v \in [GateIds -> GateValues] :
          gates = [g \in GateIds |->
                      takeDamage(NewGate(GateLane(g), 0, v[g].type, v[g].num, v[g].den),
                                 maxHealth)]
    /\ enemyConsumed = [e \in GameEnemyIds |-> FALSE]
    /\ effects = [g \in GateIds |-> 0]
    /\ kills = [e \in GameEnemyIds |-> 0]
    /\ lastApply = NoApply
    /\ lastCheck = NoCheck
    /\ lastBlobCheck = NoBlobCheck
    /\ lastPass = NoPass
    /\ passIn = NoPassIn

(***************************************************************************)
(* Game loop and Camera.                                                   *)
(***************************************************************************)
CAMERA_ANGLE    == 15       \* GameParameters.CAMERA_ANGLE
CAMERA_HEIGHT   == 280      \* GameParameters.CAMERA_HEIGHT
CAMERA_DISTANCE == 133      \* GameParameters.CAMERA_DISTANCE

\* new Camera(0, CAMERA_HEIGHT, 0) and Camera.getPosition()
NewCamera == [x |-> 0, y |-> CAMERA_HEIGHT, z |-> 0, angle |-> CAMERA_ANGLE]
getPosition(camera) == [x |-> camera.x, y |-> camera.y, z |-> camera.z, angle |-> camera.angle]

NoTick == [ran |-> FALSE, stateBefore |-> "PREPLAY", phases |-> <<>>,
           playerAfterUpdate |-> [x |-> 0, z |-> 0],
           playerAtCollide |-> [x |-> 0, z |-> 0],
           collidePose |-> NewCamera, drawPoses |-> <<>>,
           drawnPlayer |-> [x |-> 0, z |-> 0]]

\* The Game after construction: not running, PREPLAY.
LoopIdle ==
    /\ running = FALSE
    /\ rafPending = 0
    /\ world = [state |-> "PREPLAY", player |-> [x |-> 0, z |-> 0], camera |-> NewCamera,
                blobCount |-> 1]
    /\ tickLog = NoTick

\* Inputs of one frame: scrollSpeed * deltaTime, and the signed
\* PLAYER_MOVEMENT_SPEED * deltaTime of the keys held (deltaTime <= 0.1).
ScrollSteps == {0, 10}
MoveSteps   == {-30, 0, 30}

\* Math.max(minX, Math.min(maxX, x)) with the track boundaries.
clampToTrack(x) == Max(-(TRACK_WIDTH \div 2), Min(TRACK_WIDTH \div 2, x))

\* Camera.followTarget(target)
followTarget(camera, target) ==
    [camera EXCEPT !.x = target.x, !.y = CAMERA_HEIGHT, !.z = target.z - CAMERA_DISTANCE]

\* A frame in progress: f.world is the game, f.log what the frame did so far.
\* Game.update, first part: the player moves forward in PREPLAY and PLAYING.
advanceWorld(f, advance) ==
    [world |-> IF f.world.state \in {"PREPLAY", "PLAYING"}
               THEN [f.world EXCEPT !.player.z = @ + advance]
               ELSE f.world,
     log   |-> [f.log EXCEPT !.phases = Append(@, "advance")]]

\* Game.update, entities.forEach(update): Player.update moves x by dx and
\* clamps it to the track.
updateEntities(f, dx) ==
    LET moved == IF dx # 0
                 THEN [f.world EXCEPT !.player.x = clampToTrack(@ + dx)]
                 ELSE f.world
    IN  [world |-> moved,
         log   |-> [f.log EXCEPT !.phases = Append(@, "update"),
                                 !.playerAfterUpdate = moved.player]]

\* Game.update, collision checks (PLAYING only): they read the player's
\* position and the camera; hit says whether they leave no blob; then the
\* game-over test.
detectCollisions(f, hit) ==
    IF f.world.state = "PLAYING"
    THEN LET count == IF hit THEN 0 ELSE f.world.blobCount
         IN  [world |-> [f.world EXCEPT !.blobCount = count,
                                        !.state = IF count <= 0 THEN "GAME_OVER" ELSE @],
              log   |-> [f.log EXCEPT !.phases = Append(@, "collide"),
                                      !.playerAtCollide = f.world.player,
                                      !.collidePose = getPosition(f.world.camera)]]
    ELSE f

\* Game.update, last part: the camera scrolls on in GAME_OVER and follows
\* the player otherwise.
moveCamera(f, advance) ==
    [f EXCEPT !.world.camera =
        IF f.world.state = "GAME_OVER" THEN [@ EXCEPT !.z = @ + advance]
        ELSE followTarget(@, f.world.player)]

\* Game.update(deltaTime)
update(f, advance, dx, hit) ==
    moveCamera(detectCollisions(updateEntities(advanceWorld(f, advance), dx), hit), advance)

\* Game.render(): every entity's draw is handed the camera and reads its
\* pose; the player is drawn where it is.
renderFrame(f) ==
    [f EXCEPT !.log.phases = Append(@, "render"),
              !.log.drawPoses = [i \in 1..NumDrawn |-> getPosition(f.world.camera)],
              !.log.drawnPlayer = f.world.player]

\* A loop body that renders before it updates.
gameLoopBodyRenderFirst(f, advance, dx, hit) == update(renderFrame(f), advance, dx, hit)

\* The body of Game.gameLoop while running: update, then render.
gameLoopBody(f, advance, dx, hit) == renderFrame(update(f, advance, dx, hit))

\* Game.reset(): the camera goes back to its start; the Player has no reset().
reset(w) == [w EXCEPT !.camera = [@ EXCEPT !.x = 0, !.y = CAMERA_HEIGHT, !.z = 0]]

\* The host fires one pending animation-frame callback: Game.gameLoop.
GameLoop(advance, dx, hit) ==
    /\ rafPending > 0
    /\ IF ~running
       THEN /\ rafPending' = rafPending - 1
            /\ tickLog' = NoTick
            /\ UNCHANGED <<running, world>>
       ELSE LET f == gameLoopBody([world |-> world,
                                   log |-> [NoTick EXCEPT !.ran = TRUE,
                                                          !.stateBefore = world.state]],
                                  advance, dx, hit)
            IN  /\ f.world.player.z <= 10 * MaxScroll
                /\ f.world.player.x \in -30 * MaxScroll..30 * MaxScroll
                /\ f.world.camera.z <= 10 * MaxScroll
                /\ world' = f.world
                /\ tickLog' = f.log
                /\ UNCHANGED <<running, rafPending>>

\* Game.start()
LoopStart ==
    /\ ~running
    /\ rafPending < MaxCallbacks
    /\ running' = TRUE
    /\ rafPending' = rafPending + 1
    /\ UNCHANGED <<world, tickLog>>

\* Game.stop()
LoopStop ==
    /\ running
    /\ running' = FALSE
    /\ UNCHANGED <<rafPending, world, tickLog>>

\* Game.startPlaying(): state, reset(), start().
LoopStartPlaying ==
    /\ rafPending + (IF running THEN 0 ELSE 1) <= MaxCallbacks
    /\ world' = reset([world EXCEPT !.state = "PLAYING"])
    /\ running' = TRUE
    /\ rafPending' = rafPending + (IF running THEN 0 ELSE 1)
    /\ UNCHANGED tickLog

\* Game.enterPreplay(): state, stop(), reset(), start().
LoopEnterPreplay ==
    /\ rafPending < MaxCallbacks
    /\ world' = reset([world EXCEPT !.state = "PREPLAY"])
    /\ running' = TRUE
    /\ rafPending' = rafPending + 1
    /\ UNCHANGED tickLog

NoCall == [fn |-> "none"]
CallIdle ==
    /\ callArgs = NoCall
    /\ callResult = [done |-> FALSE, value |-> 0]

(***************************************************************************)
(* The Track under the game loop: each tick Game.update moves the player   *)
(* forward by scrollSpeed * deltaTime, deltaTime capped at 0.1 s, and then *)
(* updates the Track.                                                      *)
(***************************************************************************)
WORLD_SCROLL_SPEED == 200       \* GameParameters.WORLD_SCROLL_SPEED
MaxTicksPerSecond == 10         \* Math.min(deltaTime, 0.1): a tick lasts at most 1/10 s

\* The forward advances of one tick, up to the advance of a capped tick.
TrackAdvances == {0, 7, WORLD_SCROLL_SPEED \div MaxTicksPerSecond}

\* One tick of Game.update for the player and the Track.
TrackTick(advance) ==
    LET playerZ == world.player.z + advance
        seeded  == IF initialized THEN [queue |-> markerQueue, next |-> nextMarkerZ]
                   ELSE initializeMarkers(markerQueue, playerZ)
        after   == updateMarkerQueue(seeded.queue, seeded.next, playerZ)
    IN  /\ playerZ <= MaxTrackZ
        /\ world' = [world EXCEPT !.player.z = playerZ]
        /\ markerQueue' = after.queue
        /\ nextMarkerZ' = after.next
        /\ initialized' = TRUE
        /\ trackOps' = [op |-> "update", seeded |-> ~initialized,
                        pops |-> after.pops, pushes |-> after.pushes]
        /\ UNCHANGED <<running, rafPending, tickLog>>

\* Game.reset() reaching the Track: track.reset(); the player keeps its z.
TrackRestart ==
    /\ initialized
    /\ TrackReset
    /\ UNCHANGED loopVars

(***************************************************************************)
(* ObstacleSpawner.  A group is [obstacles, spawnZ]; an obstacle is the     *)
(* object a generator built, [id, kind, z].  A generator's layout is the    *)
(* sequence of [kind, zOffset] it places behind spawnZ.                     *)
(***************************************************************************)
maxObstacleGroups == 4
metersToWorld == 100                       \* 1 / METERS_PER_PIXEL
groupSpacing == 8 * metersToWorld
obstacleCleanupDistance == -(2 * metersToWorld)   \* ObstacleSpawner.cleanupDistance
staggerDistance == 150
enemyZSpread == 400                        \* enemies sit at spawnZ + [0, 400)

MaxSpawnZ      == 800      \* the player of a spawner run advances up to this Z
MaxObstacleId  == 16       \* obstacle objects constructed in one run

\* generateMathGatePair: three gates staggered by staggerDistance.
GateLayout ==
    << [kind |-> "Gate", zOffset |-> 0],
       [kind |-> "Gate", zOffset |-> staggerDistance],
       [kind |-> "Gate", zOffset |-> 2 * staggerDistance] >>

\* generateEnemies: a cluster, here its nearest and its farthest enemy.
EnemyLayout ==
    << [kind |-> "Enemy", zOffset |-> 0],
       [kind |-> "Enemy", zOffset |-> enemyZSpread - 1] >>

GroupLayouts == {GateLayout, EnemyLayout}

NoSpawnCall == [op |-> "none", playerZ |-> 0, removed |-> <<>>,
                removedGroups |-> 0, spawnedGroups |-> 0, spawnedAt |-> <<>>]

SpawnIdle ==
    /\ obstacleQueue = <<>>
    /\ nextSpawnZ = 0
    /\ obstacleEntities = <<>>
    /\ nextObstacleId = 1
    /\ spawnLog = NoSpawnCall

ObstacleIds(obstacles) == {obstacles[i].id : i \in 1..Len(obstacles)}

\* Game.removeEntity for each obstacle of a list.
removeEntities(entities, obstacles) ==
    SelectSeq(entities, LAMBDA e : e.id \notin ObstacleIds(obstacles))

\* spawnObstacleGroup without the step to the next spawn position.
spawnObstacleGroupInPlace(sp, layout) ==
    LET obstacles == [i \in 1..Len(layout) |->
                         [id |-> sp.nextId + i - 1, kind |-> layout[i].kind,
                          z |-> sp.next + layout[i].zOffset]]
    IN  [queue |-> Append(sp.queue, [obstacles |-> obstacles, spawnZ |-> sp.next]),
         next |-> sp.next,
         entities |-> sp.entities \o obstacles,
         nextId |-> sp.nextId + Len(layout)]

\* ObstacleSpawner.spawnObstacleGroup with a generator's layout.
spawnObstacleGroup(sp, layout) ==
    LET obstacles == [i \in 1..Len(layout) |->
                         [id |-> sp.nextId + i - 1, kind |-> layout[i].kind,
                          z |-> sp.next + layout[i].zOffset]]
    IN  [queue |-> Append(sp.queue, [obstacles |-> obstacles, spawnZ |-> sp.next]),
         next |-> sp.next + groupSpacing,
         entities |-> sp.entities \o obstacles,
         nextId |-> sp.nextId + Len(layout)]

RECURSIVE spawnGroups(_, _)
spawnGroups(sp, layouts) ==
    IF layouts = <<>> THEN sp
    ELSE spawnGroups(spawnObstacleGroup(sp, Head(layouts)), Tail(layouts))

\* ObstacleSpawner.initialize
initialize(sp, playerZ, layouts) ==
    spawnGroups([sp EXCEPT !.queue = <<>>, !.next = playerZ + 5 * metersToWorld],
                layouts)

\* ObstacleSpawner.removeObstacleGroup of the oldest group
removeObstacleGroup(sp) ==
    [sp EXCEPT !.entities = removeEntities(sp.entities, sp.queue[1].obstacles),
               !.queue = Tail(sp.queue)]

\* ObstacleSpawner.update
spawnerUpdate(sp, playerZ, layout) ==
    IF sp.queue = <<>> THEN sp
    ELSE IF playerZ - sp.queue[1].spawnZ > Abs(obstacleCleanupDistance)
         THEN spawnObstacleGroup(removeObstacleGroup(sp), layout)
         ELSE sp

RECURSIVE allObstacles(_)
allObstacles(queue) ==
    IF queue = <<>> THEN <<>> ELSE Head(queue).obstacles \o allObstacles(Tail(queue))

\* ObstacleSpawner.clear
clear(sp) ==
    [sp EXCEPT !.entities = removeEntities(sp.entities, allObstacles(sp.queue)),
               !.queue = <<>>]

Spawner == [queue |-> obstacleQueue, next |-> nextSpawnZ,
            entities |-> obstacleEntities, nextId |-> nextObstacleId]

SetSpawner(sp) ==
    /\ obstacleQueue' = sp.queue
    /\ nextSpawnZ' = sp.next
    /\ obstacleEntities' = sp.entities
    /\ nextObstacleId' = sp.nextId

\* The layouts of the groups one initialize() spawns: all gates, all enemy
\* clusters, or the two in turn.
LayoutLists ==
    { [i \in 1..maxObstacleGroups |-> GateLayout],
      [i \in 1..maxObstacleGroups |-> EnemyLayout],
      [i \in 1..maxObstacleGroups |-> IF i % 2 = 1 THEN GateLayout ELSE EnemyLayout] }

\* A direct ObstacleSpawner.initialize()
SpawnerInitialize(layouts) ==
    LET sp == initialize(Spawner, world.player.z, layouts)
    IN  /\ sp.nextId - 1 <= MaxObstacleId
        /\ SetSpawner(sp)
        /\ spawnLog' = [NoSpawnCall EXCEPT !.op = "initialize",
                            !.playerZ = world.player.z,
                            !.spawnedGroups = Len(sp.queue),
                            !.spawnedAt = [i \in 1..Len(sp.queue) |-> sp.queue[i].spawnZ]]
        /\ UNCHANGED loopVars

\* A direct ObstacleSpawner.clear()
SpawnerClear ==
    /\ obstacleQueue # <<>>
    /\ SetSpawner(clear(Spawner))
    /\ spawnLog' = [NoSpawnCall EXCEPT !.op = "clear",
                        !.playerZ = world.player.z,
                        !.removed = allObstacles(obstacleQueue),
                        !.removedGroups = Len(obstacleQueue)]
    /\ UNCHANGED loopVars

\* One gameLoop callback as the spawner sees it: Game.update moves the player
\* forward (PREPLAY and PLAYING), then calls obstacleSpawner.update().
SpawnTick(advance, layout) ==
    LET playerZ == IF world.state \in {"PREPLAY", "PLAYING"}
                   THEN world.player.z + advance ELSE world.player.z
        sp      == spawnerUpdate(Spawner, playerZ, layout)
        removal == obstacleQueue # <<>> /\ sp.queue # obstacleQueue
    IN  /\ running
        /\ rafPending > 0
        /\ playerZ <= MaxSpawnZ
        /\ sp.nextId - 1 <= MaxObstacleId
        /\ world' = [world EXCEPT !.player.z = playerZ]
        /\ SetSpawner(sp)
        /\ spawnLog' = [NoSpawnCall EXCEPT !.op = "update",
                            !.playerZ = playerZ,
                            !.removed = IF removal THEN obstacleQueue[1].obstacles ELSE <<>>,
                            !.removedGroups = IF removal THEN 1 ELSE 0,
                            !.spawnedGroups =
                                Len(sp.queue) - Len(obstacleQueue) + (IF removal THEN 1 ELSE 0),
                            !.spawnedAt = IF sp.next # nextSpawnZ \/ sp.nextId # nextObstacleId
                                          THEN <<sp.queue[Len(sp.queue)].spawnZ>> ELSE <<>>]
        /\ UNCHANGED <<running, rafPending, tickLog>>

\* Game.startPlaying(): state, reset(), obstacleSpawner.initialize(), start().
SpawnStartPlaying(layouts) ==
    LET sp == initialize(Spawner, world.player.z, layouts)
    IN  /\ LoopStartPlaying
        /\ sp.nextId - 1 <= MaxObstacleId
        /\ SetSpawner(sp)
        /\ spawnLog' = [NoSpawnCall EXCEPT !.op = "initialize",
                            !.playerZ = world.player.z,
                            !.spawnedGroups = Len(sp.queue),
                            !.spawnedAt = [i \in 1..Len(sp.queue) |-> sp.queue[i].spawnZ]]

\* Game.enterPreplay(): state, stop(), reset(), obstacleSpawner.clear(), start().
SpawnEnterPreplay ==
    /\ LoopEnterPreplay
    /\ SetSpawner(clear(Spawner))
    /\ spawnLog' = [NoSpawnCall EXCEPT !.op = "clear",
                        !.playerZ = world.player.z,
                        !.removed = allObstacles(obstacleQueue),
                        !.removedGroups = Len(obstacleQueue)]

(***************************************************************************)
(* Player.draw: the order in which the swarm's blobs are drawn.  Lengths    *)
(* are in tenths of a world unit.  A blob is [id, currentZ, sizeMultiplier].*)
(***************************************************************************)
ZUnit == 10                 \* tenths per world unit
epsilon == 5 * ZUnit

MaxDrawBlobs == 3           \* blobs of a drawn swarm
DrawZs == {0, 4 * ZUnit, 8 * ZUnit, 12 * ZUnit}
SizeMultipliers == {2, 12}  \* 0.2 (a swarm blob) and 1.2 (the centre blob)

\* groundZ = blob.currentZ - blob.sizeMultiplier * 0.5 (project() never
\* returns null)
groundZ(blob) == blob.currentZ - blob.sizeMultiplier \div 2

\* The comparator of the sort in Player.draw.
compareBlobs(a, b) ==
    LET zDiff == groundZ(b) - groundZ(a)
    IN  IF Abs(zDiff) < epsilon THEN a.id - b.id ELSE zDiff

\* Array.prototype.sort with a comparator that is not a consistent ordering
\* leaves the order to the engine.  Two stable sorts stand for the engines:
\* the binary insertion sort V8 runs on a short array after taking its
\* leading run, and a merge sort that halves the array.
Reverse(s) == [i \in 1..Len(s) |-> s[Len(s) + 1 - i]]

RECURSIVE runEnd(_, _, _)
\* the last index of the run that starts at 1; i is the next index to test
runEnd(s, i, descending) ==
    IF i > Len(s) THEN Len(s)
    ELSE LET order == compareBlobs(s[i], s[i - 1])
         IN  IF (descending /\ order < 0) \/ (~descending /\ order >= 0)
             THEN runEnd(s, i + 1, descending)
             ELSE i - 1

\* the array with its leading run made ascending, and the run's length
leadingRun(s) ==
    IF Len(s) < 2 THEN [array |-> s, length |-> Len(s)]
    ELSE LET descending == compareBlobs(s[2], s[1]) < 0
             n == runEnd(s, 3, descending)
         IN  [array  |-> IF descending
                         THEN Reverse(SubSeq(s, 1, n)) \o SubSeq(s, n + 1, Len(s))
                         ELSE s,
              length |-> n]

RECURSIVE binarySearch(_, _, _, _)
\* the index in front of which pivot is inserted into s[left..right-1]
binarySearch(s, pivot, left, right) ==
    IF left >= right THEN left
    ELSE LET mid == left + (right - left) \div 2
         IN  IF compareBlobs(pivot, s[mid]) < 0
             THEN binarySearch(s, pivot, left, mid)
             ELSE binarySearch(s, pivot, mid + 1, right)

RECURSIVE binaryInsertionSort(_, _)
\* s[1..start-1] is sorted; insert s[start], s[start+1], ...
binaryInsertionSort(s, start) ==
    IF start > Len(s) THEN s
    ELSE LET at == binarySearch(s, s[start], 1, start)
         IN  binaryInsertionSort(SubSeq(s, 1, at - 1) \o <<s[start]>>
                                     \o SubSeq(s, at, start - 1)
                                     \o SubSeq(s, start + 1, Len(s)),
                                 start + 1)

runInsertionSort(s) ==
    LET run == leadingRun(s) IN binaryInsertionSort(run.array, run.length + 1)

RECURSIVE merge(_, _)
\* the stable merge of two sorted sequences: the right element goes first
\* only when it compares strictly before the left one
merge(l, r) ==
    IF l = <<>> THEN r
    ELSE IF r = <<>> THEN l
    ELSE IF compareBlobs(Head(r), Head(l)) < 0
         THEN <<Head(r)>> \o merge(l, Tail(r))
         ELSE <<Head(l)>> \o merge(Tail(l), r)

RECURSIVE mergeSort(_)
mergeSort(s) ==
    IF Len(s) < 2 THEN s
    ELSE LET half == Len(s) \div 2
         IN  merge(mergeSort(SubSeq(s, 1, half)), mergeSort(SubSeq(s, half + 1, Len(s))))

SortEngines == {"runInsertion", "merge"}

\* sortedBlobs of Player.draw
sortBlobs(s, engine) ==
    IF engine = "runInsertion" THEN runInsertionSort(s) ELSE mergeSort(s)

\* The swarm handed to draw(): blobs in the order they were pushed, so with
\* ascending ids.
DrawInputs ==
    /\ \E n \in 1..MaxDrawBlobs :
          \E zs \in [1..n -> DrawZs], sizes \in [1..n -> SizeMultipliers] :
              callArgs = [fn |-> "draw",
                          swarmBlobs |-> [i \in 1..n |->
                              [id |-> i - 1, currentZ |-> zs[i],
                               sizeMultiplier |-> sizes[i]]]]
    /\ callResult = [done |-> FALSE, value |-> <<>>]

\* Player.draw: the blobs in the order drawSingleBlob is called on them.
PlayerDraw(engine) ==
    /\ callArgs.fn = "draw"
    /\ ~callResult.done
    /\ callResult' = [done |-> TRUE, value |-> sortBlobs(callArgs.swarmBlobs, engine)]
    /\ UNCHANGED callArgs

(***************************************************************************)
(* Projection.project.  Cosine and sine are taken to two decimals, so a   *)
(* rotated coordinate is an integer count of 1/TrigScale units; a screen   *)
(* quantity is a fraction [num, den] with a positive denominator.          *)
(***************************************************************************)
NumCalls == 2               \* project() calls of one run, same pose and (x, y)
TrigScale == 100
perspectiveDistance == 400  \* const perspectiveDistance = 400

\* Math.sin / Math.cos of (angleDegrees * Math.PI) / 180, times TrigScale.
sinAngle(angleDegrees) ==
    CASE angleDegrees = 15 -> 26
      [] angleDegrees = 45 -> 71
cosAngle(angleDegrees) ==
    CASE angleDegrees = 15 -> 97
      [] angleDegrees = 45 -> 71

\* The depth divided by, left as the rotated depth.
effectiveZUnclamped(rotatedZ) == rotatedZ

\* Math.max(rotatedZ, 1)
effectiveZ(rotatedZ) == Max(rotatedZ, 1 * TrigScale)

\* A scale that ignores the depth.
perspectiveScaleFlat(effZ) == [num |-> perspectiveDistance * TrigScale, den |-> TrigScale]

\* perspectiveDistance / effectiveZ
perspectiveScale(effZ) == [num |-> perspectiveDistance * TrigScale, den |-> effZ]

\* project(x, y, z, camera)
project(x, y, z, camera) ==
    LET relX     == x - camera.x
        relY     == -(y - camera.y)
        relZ     == z - camera.z
        rotatedY == relY * cosAngle(camera.angle) - relZ * sinAngle(camera.angle)
        rotatedZ == relY * sinAngle(camera.angle) + relZ * cosAngle(camera.angle)
        scale    == perspectiveScale(effectiveZ(rotatedZ))
    IN  [x     |-> [num |-> relX * scale.num, den |-> scale.den],
         y     |-> [num |-> -rotatedY * perspectiveDistance, den |-> scale.den],
         depth |-> relZ,
         scale |-> scale]

\* The arguments of the calls: world points in front of, at and behind the
\* camera, seen from cameras of the game (angle 15) and of the default
\* argument (angle 45).
ProjectXs == {0, 100}
ProjectYs == {0, 50}
ProjectZs == {-400, -200, -75, -74, 0, 200}
ProjectCameras ==
    { [x |-> 0, y |-> CAMERA_HEIGHT, z |-> cz, angle |-> a] :
        cz \in {0, -CAMERA_DISTANCE}, a \in {CAMERA_ANGLE, 45} }

ProjectInputs ==
    /\ \E x \in ProjectXs, y \in ProjectYs, camera \in ProjectCameras,
          zs \in [1..NumCalls -> ProjectZs] :
          callArgs = [fn |-> "project", x |-> x, y |-> y, zs |-> zs, camera |-> camera]
    /\ callResult = [done |-> FALSE, value |-> <<>>]

\* The next call: project(x, y, zs[i], camera).
Project ==
    LET i == Len(callResult.value) + 1
    IN  /\ callArgs.fn = "project"
        /\ i <= Len(callArgs.zs)
        /\ callResult' =
              [done  |-> i = Len(callArgs.zs),
               value |-> Append(callResult.value,
                                project(callArgs.x, callArgs.y, callArgs.zs[i],
                                        callArgs.camera))]
        /\ UNCHANGED callArgs

\* player.addBlobs(n), called directly on a player with the count of callArgs.
AddBlobAmounts == {-1000, -MaxCount, -6, -5, -4, -1, 0, 1, 3, MaxCount}
AddBlobsInputs ==
    /\ \E count \in 0..MaxCount, n \in AddBlobAmounts :
          callArgs = [fn |-> "addBlobs", count |-> count, n |-> n]
    /\ callResult = [done |-> FALSE, value |-> 0]

AddBlobs ==
    /\ callArgs.fn = "addBlobs"
    /\ ~callResult.done
    /\ callResult' = [done |-> TRUE, value |-> addBlobs(callArgs.count, callArgs.n)]
    /\ UNCHANGED callArgs

\* The keys, the frame times (hundredths of a second) and the positions a
\* player starts from.
DeltaTimes == {0, 5, 10, 50, 200}
MoveStarts == {-(TRACK_WIDTH \div 2), -193, 0, TRACK_WIDTH \div 2}
MoveInputs ==
    /\ running = FALSE
    /\ rafPending = 0
    /\ tickLog = NoTick
    /\ \E x \in MoveStarts :
          world = [state |-> "PREPLAY", player |-> [x |-> x, z |-> 0],
                   camera |-> NewCamera, blobCount |-> 1]

(***************************************************************************)
(* Specification of the Renderer.                                          *)
(***************************************************************************)
RenderInit == RenderIdle /\ TrackIdle /\ CollideIdle /\ GameIdle /\ LoopIdle /\ CallIdle /\ SpawnIdle

RenderNext ==
    \/ \E k \in EntityKinds, z \in EntityZs : AddEntity(k, z) /\ UNCHANGED <<trackVars, collideVars, gameVars, loopVars, callVars, spawnVars>>
    \/ \E id \in EntityIds : RemoveEntity(id) /\ UNCHANGED <<trackVars, collideVars, gameVars, loopVars, callVars, spawnVars>>
    \/ \E id \in EntityIds : Destroy(id) /\ UNCHANGED <<trackVars, collideVars, gameVars, loopVars, callVars, spawnVars>>
    \/ \E id \in EntityIds, z \in EntityZs : MoveEntity(id, z) /\ UNCHANGED <<trackVars, collideVars, gameVars, loopVars, callVars, spawnVars>>
    \/ Render /\ UNCHANGED <<trackVars, collideVars, gameVars, loopVars, callVars, spawnVars>>

SpecRender == RenderInit /\ [][RenderNext]_vars

(***************************************************************************)
(* Specification of the Track.                                             *)
(***************************************************************************)
TrackInit == RenderIdle /\ TrackIdle /\ CollideIdle /\ GameIdle /\ LoopIdle /\ CallIdle /\ SpawnIdle

TrackNext ==
    \/ \E z \in TrackPlayerZs : TrackUpdate(z) /\ UNCHANGED <<renderVars, collideVars, gameVars, loopVars, callVars, spawnVars>>
    \/ TrackUpdateNoPlayer /\ UNCHANGED <<renderVars, collideVars, gameVars, loopVars, callVars, spawnVars>>
    \/ TrackReset /\ UNCHANGED <<renderVars, collideVars, gameVars, loopVars, callVars, spawnVars>>

SpecTrack == TrackInit /\ [][TrackNext]_vars

(***************************************************************************)
(* Specification of Gate.checkCollision over its arguments.                *)
(***************************************************************************)
CollideInit == RenderIdle /\ TrackIdle /\ CollideInputs /\ GameIdle /\ LoopIdle /\ CallIdle /\ SpawnIdle

CollideNext ==
    \/ CollideCheck /\ UNCHANGED <<renderVars, trackVars, gameVars, loopVars, callVars, spawnVars>>
    \/ \E pose \in CameraPoses : CollideMoveCamera(pose) /\ UNCHANGED <<renderVars, trackVars, gameVars, loopVars, callVars, spawnVars>>

SpecCollide == CollideInit /\ [][CollideNext]_vars

(***************************************************************************)
(* Specification of the Gate under direct calls.                           *)
(***************************************************************************)
GateInit == RenderIdle /\ TrackIdle /\ CollideIdle /\ GateInputs /\ LoopIdle /\ CallIdle /\ SpawnIdle

GateNext ==
    \/ \E g \in GateIds, d \in DamageAmounts :
          GateTakeDamage(g, d) /\ UNCHANGED <<renderVars, trackVars, collideVars, loopVars, callVars, spawnVars>>
    \/ \E g \in GateIds : GateApplyEffect(g) /\ UNCHANGED <<renderVars, trackVars, collideVars, loopVars, callVars, spawnVars>>
    \/ \E g \in GateIds, pos \in PassPositions :
          GateCheckCollision(g, pos) /\ UNCHANGED <<renderVars, trackVars, collideVars, loopVars, callVars, spawnVars>>
    \/ \E pos \in PassPositions :
          GateCollisionPass(pos) /\ UNCHANGED <<renderVars, trackVars, collideVars, loopVars, callVars, spawnVars>>

SpecGate == GateInit /\ [][GateNext]_vars

(***************************************************************************)
(* Specification of the Game's frames.                                     *)
(***************************************************************************)
GameInit == RenderIdle /\ TrackIdle /\ CollideIdle /\ GameInputs /\ LoopIdle /\ CallIdle /\ SpawnIdle

GameNext ==
    \/ \E pos \in PassPositions, dt \in ClockSteps, hits \in [GateIds -> HitCounts] :
          GameTick(pos, dt, hits) /\ UNCHANGED <<renderVars, trackVars, collideVars, loopVars, callVars, spawnVars>>
    \/ StartPlaying /\ UNCHANGED <<renderVars, trackVars, collideVars, loopVars, callVars, spawnVars>>
    \/ EnterPreplay /\ UNCHANGED <<renderVars, trackVars, collideVars, loopVars, callVars, spawnVars>>
    \/ \E e \in GameEnemyIds, overlap \in BOOLEAN :
          EnemyCheckBlobCollision(e, overlap) /\ UNCHANGED <<renderVars, trackVars, collideVars, loopVars, callVars, spawnVars>>

SpecGame == GameInit /\ [][GameNext]_vars

(***************************************************************************)
(* Specification of one enemy collision pass over its arguments.           *)
(***************************************************************************)
PassInit == RenderIdle /\ TrackIdle /\ CollideIdle /\ PassInputs /\ LoopIdle /\ CallIdle /\ SpawnIdle

PassNext == EnemyCollisionPass /\ UNCHANGED <<renderVars, trackVars, collideVars, loopVars, callVars, spawnVars>>

SpecPass == PassInit /\ [][PassNext]_vars

(***************************************************************************)
(* Specification of the swarm under gate effects, enemy passes and updates *)
(* in any order, no key held.                                              *)
(***************************************************************************)
SwarmInit == RenderIdle /\ TrackIdle /\ CollideIdle /\ SwarmInputs /\ LoopIdle /\ CallIdle /\ SpawnIdle

SwarmNext ==
    \/ PlayerUpdate(FALSE, FALSE, 0) /\ UNCHANGED <<renderVars, trackVars, collideVars, spawnVars>>
    \/ \E g \in GateIds :
          GateApplyEffect(g) /\ UNCHANGED <<renderVars, trackVars, collideVars, loopVars, callVars, spawnVars>>
    \/ \E dt \in ClockSteps, touch \in [DOMAIN enemyConsumed -> 0..Len(swarmBlobs)] :
          EnemyFramePass(dt, touch) /\ UNCHANGED <<renderVars, trackVars, collideVars, loopVars, callVars, spawnVars>>

SpecSwarm == SwarmInit /\ [][SwarmNext]_vars

(***************************************************************************)
(* Specification of project() over its arguments.                          *)
(***************************************************************************)
ProjectInit == RenderIdle /\ TrackIdle /\ CollideIdle /\ GameIdle /\ LoopIdle /\ ProjectInputs /\ SpawnIdle

ProjectNext == Project /\ UNCHANGED <<renderVars, trackVars, collideVars, gameVars, loopVars, spawnVars>>

SpecProject == ProjectInit /\ [][ProjectNext]_vars

(***************************************************************************)
(* Specification of Player.addBlobs over its arguments.                    *)
(***************************************************************************)
AddBlobsInit == RenderIdle /\ TrackIdle /\ CollideIdle /\ GameIdle /\ LoopIdle /\ AddBlobsInputs /\ SpawnIdle

AddBlobsNext == AddBlobs /\ UNCHANGED <<renderVars, trackVars, collideVars, gameVars, loopVars, spawnVars>>

SpecAddBlobs == AddBlobsInit /\ [][AddBlobsNext]_vars

(***************************************************************************)
(* Specification of the player's movement under Player.update.             *)
(***************************************************************************)
MoveInit == RenderIdle /\ TrackIdle /\ CollideIdle /\ GameIdle /\ MoveInputs /\ CallIdle /\ SpawnIdle

MoveNext ==
    \E left \in BOOLEAN, right \in BOOLEAN, dt \in DeltaTimes :
        PlayerUpdate(left, right, dt) /\ UNCHANGED <<renderVars, trackVars, collideVars, spawnVars>>

SpecMove == MoveInit /\ [][MoveNext]_vars

(***************************************************************************)
(* Specification of the Track under the game loop.                         *)
(***************************************************************************)
TrackRunInit == RenderIdle /\ TrackIdle /\ CollideIdle /\ GameIdle /\ LoopIdle /\ CallIdle /\ SpawnIdle

TrackRunNext ==
    \/ \E advance \in TrackAdvances :
          TrackTick(advance) /\ UNCHANGED <<renderVars, collideVars, gameVars, callVars, spawnVars>>
    \/ TrackRestart /\ UNCHANGED <<renderVars, collideVars, gameVars, callVars, spawnVars>>

SpecTrackRun == TrackRunInit /\ [][TrackRunNext]_vars

(***************************************************************************)
(* Specification of the ObstacleSpawner under the game loop.               *)
(***************************************************************************)
SpawnInit == RenderIdle /\ TrackIdle /\ CollideIdle /\ GameIdle /\ LoopIdle /\ CallIdle /\ SpawnIdle

SpawnAdvances == {WORLD_SCROLL_SPEED \div MaxTicksPerSecond}

SpawnNext ==
    \/ \E advance \in SpawnAdvances, layout \in GroupLayouts :
          SpawnTick(advance, layout) /\ UNCHANGED <<renderVars, trackVars, collideVars, gameVars, callVars>>
    \/ \E layouts \in LayoutLists :
          SpawnerInitialize(layouts) /\ UNCHANGED <<renderVars, trackVars, collideVars, gameVars, callVars>>
    \/ SpawnerClear /\ UNCHANGED <<renderVars, trackVars, collideVars, gameVars, callVars>>
    \/ \E layouts \in LayoutLists :
          SpawnStartPlaying(layouts) /\ UNCHANGED <<renderVars, trackVars, collideVars, gameVars, callVars>>
    \/ SpawnEnterPreplay /\ UNCHANGED <<renderVars, trackVars, collideVars, gameVars, callVars>>

SpecSpawn == SpawnInit /\ [][SpawnNext]_vars

(***************************************************************************)
(* Specification of Player.draw over the swarm it is given.                *)
(***************************************************************************)
DrawInit == RenderIdle /\ TrackIdle /\ CollideIdle /\ GameIdle /\ LoopIdle /\ DrawInputs /\ SpawnIdle

DrawNext ==
    \E engine \in SortEngines :
        PlayerDraw(engine) /\ UNCHANGED <<renderVars, trackVars, collideVars, gameVars, loopVars, spawnVars>>

SpecDraw == DrawInit /\ [][DrawNext]_vars

(***************************************************************************)
(* Specification of the game loop.                                         *)
(***************************************************************************)
LoopInit == RenderIdle /\ TrackIdle /\ CollideIdle /\ GameIdle /\ LoopIdle /\ CallIdle /\ SpawnIdle

LoopNext ==
    \/ \E advance \in ScrollSteps, dx \in MoveSteps, hit \in BOOLEAN :
          GameLoop(advance, dx, hit)
            /\ UNCHANGED <<renderVars, trackVars, collideVars, gameVars, callVars, spawnVars>>
    \/ LoopStart /\ UNCHANGED <<renderVars, trackVars, collideVars, gameVars, callVars, spawnVars>>
    \/ LoopStop /\ UNCHANGED <<renderVars, trackVars, collideVars, gameVars, callVars, spawnVars>>
    \/ LoopStartPlaying /\ UNCHANGED <<renderVars, trackVars, collideVars, gameVars, callVars, spawnVars>>
    \/ LoopEnterPreplay /\ UNCHANGED <<renderVars, trackVars, collideVars, gameVars, callVars, spawnVars>>

SpecLoop == LoopInit /\ [][LoopNext]_vars

(***************************************************************************)
(* Properties.                                                             *)
(***************************************************************************)
DrawnNonTrack == SelectSeq(drawLog, LAMBDA d : d.kind # "Track")
InputNonTrack == SelectSeq(renderInput, LAMBDA e : ent[e.id].kind # "Track")
PosInInput(id) == CHOOSE i \in 1..Len(renderInput) : renderInput[i].id = id
ZsOf(s) == [i \in 1..Len(s) |-> s[i].z]

\* C1: render() draws every non-Track entity of the collection once, in
\* non-increasing world Z (farthest first; Z = 10, 5, 20 is drawn 20, 10, 5),
\* and entities of equal Z are drawn in their order in the collection, hence
\* in the same relative order on every render of an unchanged collection.
C1_DepthSortedStable ==
    /\ Len(DrawnNonTrack) = Len(InputNonTrack)
    /\ {DrawnNonTrack[i].id : i \in 1..Len(DrawnNonTrack)}
         = {InputNonTrack[i].id : i \in 1..Len(InputNonTrack)}
    /\ \A i, j \in 1..Len(DrawnNonTrack) :
          i < j =>
            /\ DrawnNonTrack[i].z >= DrawnNonTrack[j].z
            /\ DrawnNonTrack[i].z = DrawnNonTrack[j].z
                  => PosInInput(DrawnNonTrack[i].id) < PosInInput(DrawnNonTrack[j].id)
    /\ ZsOf(InputNonTrack) = <<10, 5, 20>> => ZsOf(DrawnNonTrack) = <<20, 10, 5>>

C1_Witness ==
    /\ ZsOf(InputNonTrack) = <<10, 5, 20>>
    /\ ZsOf(DrawnNonTrack) = <<20, 10, 5>>

\* C2: in every render() the Track is not in the depth-sorted list, and its
\* draw precedes the draw of every non-Track entity, whatever the Z values.
C2_TrackFirst ==
    /\ \A i \in 1..Len(sortedList) : ent[sortedList[i].id].kind # "Track"
    /\ \A i, j \in 1..Len(drawLog) :
          (drawLog[i].kind = "Track" /\ drawLog[j].kind # "Track") => i < j
    /\ (\E i \in 1..Len(renderInput) : ent[renderInput[i].id].kind = "Track")
          => (drawLog # <<>> /\ drawLog[1].kind = "Track")

C2_Witness ==
    /\ Len(drawLog) = 3
    /\ drawLog[1].kind = "Track"
    /\ ent[renderInput[1].id].kind # "Track"
    /\ drawLog[1].z < drawLog[2].z
    /\ drawLog[1].z > drawLog[3].z

Spaced(q) == \A i \in 1..(Len(q) - 1) : q[i + 1] - q[i] = markerInterval

\* C3: after any sequence of Track.update ticks (any player Z) and resets,
\* the marker queue is empty (not initialized) or holds exactly maxMarkers
\* Z values, increasing, consecutive ones markerInterval apart; an update
\* pops at most one marker and pushes one marker for each it pops.
C3_MarkerQueue ==
    /\ \/ ~initialized /\ markerQueue = <<>>
       \/ /\ initialized
          /\ Len(markerQueue) = maxMarkers
          /\ Spaced(markerQueue)
          /\ \A i \in 1..(Len(markerQueue) - 1) : markerQueue[i] < markerQueue[i + 1]
    /\ trackOps.pops <= 1
    /\ trackOps.pushes = trackOps.pops

C3_Witness ==
    /\ trackOps.op = "update"
    /\ ~trackOps.seeded
    /\ trackOps.pops = 1
    /\ Len(markerQueue) = maxMarkers
    /\ markerQueue[1] > 0

\* r is the floor of n / d (d > 0).
IsFloorOf(r, n, d) == r * d <= n /\ n < (r + 1) * d

\* C4: a gate's effect assigns the blob count at most once: consumed only
\* ever goes from false to true, an applyEffect on a consumed gate leaves the
\* count alone, and checkCollision on a consumed gate returns false even with
\* the player inside the gate's box.
C4_EffectOnce ==
    /\ [](/\ \A g \in GateIds : effects[g] <= 1 /\ (effects[g] = 1 <=> gates[g].consumed)
          /\ (lastApply.called /\ lastApply.wasConsumed)
                => (lastApply.after = lastApply.before /\ gates[lastApply.gate].consumed)
          /\ (lastCheck.called /\ lastCheck.wasConsumed) => ~lastCheck.value)
    /\ [][\A g \in GateIds : gates[g].consumed => gates'[g].consumed]_vars

\* A consumed gate whose effect changed the count has been handed to
\* applyEffect again and to checkCollision with the player in its box.
C4_Witness ==
    /\ lastApply.called /\ lastApply.wasConsumed
    /\ effects[lastApply.gate] = 1
    /\ gates[lastApply.gate].type = "addition" /\ gates[lastApply.gate].num = 3
    /\ lastCheck.called /\ lastCheck.gate = lastApply.gate
    /\ lastCheck.wasConsumed /\ lastCheck.inBox

\* C9 as stated: applyEffect on any unconsumed gate sets the count to
\* floor(count * value) for a multiplication gate and adds floor(value) for an
\* addition gate.
C9_AsStated ==
    (lastApply.called /\ ~lastApply.wasConsumed) =>
        LET g == gates[lastApply.gate]
        IN  IF g.type = "multiplication"
            THEN IsFloorOf(lastApply.after, lastApply.before * g.num, g.den)
            ELSE IsFloorOf(lastApply.after - lastApply.before, g.num, g.den)

\* C9: applyEffect on an unconsumed gate whose health is 0 sets the count to
\* floor(count * value) for a multiplication gate and to
\* max(0, count + floor(value)) for an addition gate; on an unconsumed gate
\* with health left it changes nothing.
C9_EffectArithmetic ==
    (lastApply.called /\ ~lastApply.wasConsumed) =>
        LET g == gates[lastApply.gate]
        IN  IF lastApply.health > 0
            THEN lastApply.after = lastApply.before
            ELSE IF g.type = "multiplication"
                 THEN IsFloorOf(lastApply.after, lastApply.before * g.num, g.den)
                 ELSE \E f \in -MaxCount..MaxCount :
                        /\ IsFloorOf(f, g.num, g.den)
                        /\ lastApply.after =
                             IF lastApply.before + f < 0 THEN 0 ELSE lastApply.before + f

\* A x2 gate with no health left has turned 5 blobs into 10.
C9_Witness ==
    /\ lastApply.called /\ ~lastApply.wasConsumed /\ lastApply.health = 0
    /\ gates[lastApply.gate].type = "multiplication"
    /\ gates[lastApply.gate].num = 2 /\ gates[lastApply.gate].den = 1
    /\ lastApply.before = 5 /\ lastApply.after = 10

\* C5 as stated: whatever gate effects, enemy hits and removals happened, the
\* blob count is not negative.
C5_CountNeverNegative == blobCount >= 0

\* C6: a neutralized enemy stays neutralized and marks no further blob, in
\* any later frame and whatever it overlaps; no enemy ever marks more than
\* one blob; checkBlobCollision on a neutralized enemy returns false.
C6_NeutralizedForGood ==
    /\ [](/\ \A e \in GameEnemyIds : kills[e] <= 1 /\ (kills[e] = 1 <=> enemyConsumed[e])
          /\ (lastBlobCheck.called /\ lastBlobCheck.wasConsumed) => ~lastBlobCheck.value)
    /\ [][\A e \in GameEnemyIds :
            isNeutralized(enemyConsumed[e])
                => (isNeutralized(enemyConsumed'[e]) /\ kills'[e] = kills[e])]_vars

\* A frame in which an enemy neutralized earlier overlapped a live blob and
\* nothing was marked, and a direct checkBlobCollision on an overlapping
\* neutralized enemy.
C6_Witness ==
    /\ lastPass.ran /\ lastPass.consumedTouch /\ lastPass.killed = <<>>
    /\ lastBlobCheck.called /\ lastBlobCheck.wasConsumed /\ lastBlobCheck.overlap
    /\ \E e \in GameEnemyIds : kills[e] = 1

\* C7 as stated: a collision pass that removes blobs whose death animation
\* is complete leaves the blob count at its value before the removal minus
\* one per removed blob, also in a frame whose gate pass changed the count
\* (looked at only where the count before the removal leaves room for the
\* decrement).
C7_RemovalDecrements ==
    (lastPass.ran /\ lastPass.removed > 0 /\ lastPass.countBeforeCleanup >= lastPass.removed)
        => lastPass.countAfter = lastPass.countBeforeCleanup - lastPass.removed

KilledBlobs   == {lastPass.killed[j].blob : j \in 1..Len(lastPass.killed)}
KilledBy(e)   == {lastPass.killed[j].blob : j \in {n \in 1..Len(lastPass.killed) :
                                                      lastPass.killed[n].enemy = e}}
KilledBefore(e) == {lastPass.killed[j].blob : j \in {n \in 1..Len(lastPass.killed) :
                                                        lastPass.killed[n].enemy < e}}

\* C8: in one collision pass every enemy that was not neutralized and
\* overlaps a blob that is neither dying nor already chosen in the pass is
\* neutralized and marks exactly one such blob; no other enemy marks
\* anything; the blobs marked are pairwise distinct and are exactly the
\* blobs that turned dying.
C8_OneBlobPerEnemy ==
    lastPass.ran =>
        /\ \A e \in EnemyIds :
              LET left == {i \in passIn.ov[e] : ~passIn.swarm[i].dying} \ KilledBefore(e)
              IN  IF ~passIn.consumed[e] /\ left # {}
                  THEN /\ Cardinality(KilledBy(e)) = 1
                       /\ KilledBy(e) \subseteq left
                       /\ enemyConsumed[e]
                  ELSE /\ KilledBy(e) = {}
                       /\ enemyConsumed[e] = passIn.consumed[e]
        /\ Cardinality(KilledBlobs) = Len(lastPass.killed)
        /\ Len(swarmBlobs) = Len(passIn.swarm)
        /\ \A i \in 1..Len(swarmBlobs) :
              swarmBlobs[i].dying <=> (passIn.swarm[i].dying \/ i \in KilledBlobs)

\* Two enemies overlapping the same blobs, one of them already dying, have
\* marked two different blobs.
C8_Witness ==
    /\ lastPass.ran /\ Len(lastPass.killed) = 2
    /\ passIn.ov[1] = passIn.ov[2]
    /\ \E i \in passIn.ov[1] : passIn.swarm[i].dying
    /\ lastPass.killed[1].blob # lastPass.killed[2].blob

\* C11 as stated: in a tick that runs the collision checks, the camera pose
\* they read is the pose every draw of that tick's render is handed, and
\* all draws of the render are handed the same pose.
C11_OnePosePerTick ==
    (tickLog.ran /\ tickLog.stateBefore = "PLAYING") =>
        \A i \in 1..Len(tickLog.drawPoses) :
            /\ tickLog.drawPoses[i] = tickLog.collidePose
            /\ tickLog.drawPoses[i] = tickLog.drawPoses[1]

\* C12 as stated: every executed tick advances the world, updates the
\* entities, detects collisions and renders, in this order.
C12_AsStated ==
    tickLog.ran => tickLog.phases = <<"advance", "update", "collide", "render">>

\* C12: every executed tick advances the world, updates the entities, runs
\* the collision checks if and only if the state was PLAYING, and renders
\* last, in this order; the collision checks and the render see the player
\* where the update left it.
C12_TickOrder ==
    tickLog.ran =>
        /\ tickLog.phases =
              IF tickLog.stateBefore = "PLAYING"
              THEN <<"advance", "update", "collide", "render">>
              ELSE <<"advance", "update", "render">>
        /\ tickLog.drawnPlayer = tickLog.playerAfterUpdate
        /\ tickLog.drawnPlayer = world.player
        /\ tickLog.stateBefore = "PLAYING"
              => tickLog.playerAtCollide = tickLog.playerAfterUpdate

\* A PLAYING tick that moved the player forward and sideways.
C12_Witness ==
    /\ tickLog.ran /\ tickLog.stateBefore = "PLAYING"
    /\ tickLog.playerAfterUpdate = [x |-> 30, z |-> 10]
    /\ Len(tickLog.drawPoses) = NumDrawn
    /\ world.state = "PLAYING"

\* C13: a PLAYING frame whose collision checks leave the blob count at 0 or
\* below ends in GAME_OVER; GAME_OVER is entered only from PLAYING, and it
\* is left only by startPlaying() or enterPreplay(), which change nothing
\* but the state here.
C13_GameOverTransitions ==
    [][/\ (/\ gstate = "PLAYING"
           /\ lastBlobCheck' = lastBlobCheck
           /\ gstate' # "PREPLAY"
           /\ blobCount' <= 0) => gstate' = "GAME_OVER"
       /\ (gstate' = "GAME_OVER" /\ gstate # "GAME_OVER") => gstate = "PLAYING"
       /\ (gstate = "GAME_OVER" /\ gstate' # "GAME_OVER") =>
             /\ gstate' \in {"PLAYING", "PREPLAY"}
             /\ UNCHANGED <<blobCount, previousBlobCount, swarmBlobs, gates,
                            enemyConsumed, effects, kills, lastPass>>]_vars

\* The frame in which the last blob was removed ended the game.
C13_Witness ==
    /\ gstate = "GAME_OVER"
    /\ lastPass.ran /\ lastPass.removed >= 1 /\ lastPass.countAfter = 0

IdsOf(s) == {s[i] : i \in 1..Len(s)}
DrawnIds == {drawLog[i].id : i \in 1..Len(drawLog)}

\* C14: an entity marked for deletion before a render is out of the
\* Renderer's collection after it and is not drawn by it; a mark is never
\* taken back, so no later render draws it either; the draw loop passes over
\* the purged collection as it was when the loop began: every entity drawn
\* is in it, and every non-Track entity of it is drawn exactly once.
C14_MarkedNeverDrawn ==
    [][/\ \A id \in EntityIds :
             ent[id].markedForDeletion => ent'[id].markedForDeletion
       /\ (ent' = ent /\ gEntities' = gEntities) =>
             /\ \A id \in EntityIds :
                   ent[id].markedForDeletion =>
                       /\ id \notin IdsOf(rEntities')
                       /\ \A i \in 1..Len(drawLog') : drawLog'[i].id # id
             /\ \A i \in 1..Len(drawLog') : drawLog'[i].id \in IdsOf(rEntities')
             /\ \A i \in 1..Len(rEntities') :
                   ent[rEntities'[i]].kind # "Track" =>
                       Cardinality({j \in 1..Len(drawLog') :
                                       drawLog'[j].id = rEntities'[i]}) = 1]_vars

\* A render has dropped a marked entity that the Game still lists, and has
\* drawn the others.
C14_Witness ==
    /\ drawLog # <<>>
    /\ \E id \in IdsOf(gEntities) :
          /\ ent[id].markedForDeletion
          /\ id \notin IdsOf(rEntities)
          /\ id \notin DrawnIds

\* C15 as stated: whenever Player.update has run with an input manager, the
\* swarm it leaves has as many blobs as the blob count, whatever gate
\* effects, enemy kills and removals came before.
C15_SwarmMatchesCount ==
    callArgs.fn = "Player.update" =>
        callResult.value.length = callResult.value.blobCount

\* C16 as stated: while the blob count is at least 1, the swarm holds
\* exactly one centre blob and it is the first blob of the swarm.
C16_CentreBlobKept ==
    blobCount >= 1 =>
        /\ Len(swarmBlobs) >= 1
        /\ swarmBlobs[1].isCenter
        /\ Cardinality({i \in 1..Len(swarmBlobs) : swarmBlobs[i].isCenter}) = 1

\* a < b for fractions with positive denominators.
LessFrac(a, b) == a.num * b.den < b.num * a.den

\* The depth along the view axis of the i-th projected point, in
\* 1/TrigScale units, from the definition of the rotation.
ViewDepth(i) ==
    (callArgs.camera.y - callArgs.y) * sinAngle(callArgs.camera.angle)
      + (callArgs.zs[i] - callArgs.camera.z) * cosAngle(callArgs.camera.angle)

\* C17 as stated: of two points projected under one pose with the same
\* (x, y), the one with the larger z gets the strictly smaller scale and the
\* strictly larger depth, wherever the two points are.
C17_AsStated ==
    callArgs.fn = "project" =>
        \A i, j \in 1..Len(callResult.value) :
            callArgs.zs[i] < callArgs.zs[j] =>
                /\ LessFrac(callResult.value[j].scale, callResult.value[i].scale)
                /\ callResult.value[j].depth > callResult.value[i].depth

\* C17: of two points projected under one pose with the same (x, y), the
\* one with the larger z gets the strictly larger depth and a scale that is
\* never larger; the scale is strictly smaller exactly when the farther
\* point is more than one unit in front of the camera along the view axis,
\* and both scales are perspectiveDistance otherwise.
C17_ScaleMonotone ==
    callArgs.fn = "project" =>
        \A i, j \in 1..Len(callResult.value) :
            callArgs.zs[i] < callArgs.zs[j] =>
                /\ callResult.value[j].depth > callResult.value[i].depth
                /\ callResult.value[j].depth - callResult.value[i].depth
                      = callArgs.zs[j] - callArgs.zs[i]
                /\ IF ViewDepth(j) > TrigScale
                   THEN LessFrac(callResult.value[j].scale, callResult.value[i].scale)
                   ELSE /\ callResult.value[j].scale.num
                             = perspectiveDistance * callResult.value[j].scale.den
                        /\ callResult.value[i].scale.num
                             = perspectiveDistance * callResult.value[i].scale.den

\* Two points projected, the nearer behind the camera, the farther in front.
C17_Witness ==
    /\ callArgs.fn = "project" /\ callResult.done
    /\ \E i, j \in 1..Len(callResult.value) :
          /\ callArgs.zs[i] < callArgs.zs[j]
          /\ ViewDepth(i) < 0
          /\ ViewDepth(j) > TrigScale
          /\ LessFrac(callResult.value[j].scale, callResult.value[i].scale)

\* C18: the depth project() divides by is at least 1, so the scale is a
\* quotient of positive numbers, positive and at most perspectiveDistance.
C18_DepthClamped ==
    callArgs.fn = "project" =>
        \A i \in 1..Len(callResult.value) :
            /\ callResult.value[i].scale.den >= TrigScale
            /\ callResult.value[i].scale.den >= ViewDepth(i)
            /\ callResult.value[i].scale.num > 0
            /\ callResult.value[i].scale.num
                  <= perspectiveDistance * callResult.value[i].scale.den

\* A point behind the camera has been projected.
C18_Witness ==
    /\ callArgs.fn = "project"
    /\ \E i \in 1..Len(callResult.value) :
          /\ ViewDepth(i) <= 0
          /\ callResult.value[i].scale.num
                = perspectiveDistance * callResult.value[i].scale.den

\* C19: addBlobs(n) on a count >= 0 leaves max(0, count + n), so a count
\* that is never negative; addBlobs(-1000) from 5 leaves 0.
C19_AddBlobsClamps ==
    (callArgs.fn = "addBlobs" /\ callResult.done) =>
        /\ callResult.value >= 0
        /\ callResult.value >= callArgs.count + callArgs.n
        /\ callResult.value \in {0, callArgs.count + callArgs.n}
        /\ (callArgs.count = 5 /\ callArgs.n = -1000) => callResult.value = 0

\* addBlobs(-1000) has been called on a count of 5.
C19_Witness ==
    /\ callArgs.fn = "addBlobs" /\ callResult.done
    /\ callArgs.count = 5 /\ callArgs.n = -1000
    /\ callResult.value = 0

\* C20: the player's x never leaves [-TRACK_WIDTH/2, TRACK_WIDTH/2] under
\* Player.update, whatever keys are held and however long the frame; an
\* update with both keys or neither key held leaves x as it was.
C20_StaysOnTrack ==
    /\ 2 * world.player.x >= -TRACK_WIDTH
    /\ 2 * world.player.x <= TRACK_WIDTH
    /\ callArgs.fn = "Player.update" =>
          /\ world.player.x = callResult.value.x
          /\ (callArgs.left = callArgs.right) => callResult.value.x = callArgs.x
          /\ (callArgs.right /\ ~callArgs.left) => callResult.value.x >= callArgs.x
          /\ (callArgs.left /\ ~callArgs.right) => callResult.value.x <= callArgs.x

\* An update that would have carried the player over the right edge.
C20_Witness ==
    /\ callArgs.fn = "Player.update"
    /\ callArgs.right /\ ~callArgs.left
    /\ 2 * (callArgs.x + (PLAYER_MOVEMENT_SPEED * callArgs.dt) \div TicksPerSecond) > TRACK_WIDTH
    /\ 2 * callArgs.x < TRACK_WIDTH
    /\ 2 * world.player.x = TRACK_WIDTH

\* C21 as stated: a step that enters PLAYING (startPlaying(), directly from
\* GAME_OVER or after enterPreplay()) begins a game with blob count 1.
C21_RestartIsFresh ==
    [][(gstate # "PLAYING" /\ gstate' = "PLAYING") => blobCount' = 1]_vars

\* C22 as stated: at most one gameLoop callback is pending at any time.
C22_OneCallbackPending == rafPending <= 1

C24_RemovedOnlyWhenPassed ==
    spawnLog.op = "update" =>
        \A i \in 1..Len(spawnLog.removed) : spawnLog.playerZ > spawnLog.removed[i].z

\* C25: a gate with health left is unconsumed and its effect has never been
\* applied; no step changes the blob count while every gate has health left,
\* and a step that sets a gate's consumed flag finds the gate's health at 0.
C25_EffectNeedsNoHealth ==
    /\ [](\A g \in GateIds :
             gates[g].health > 0 => (~gates[g].consumed /\ effects[g] = 0))
    /\ [][/\ (\A g \in GateIds : gates[g].health > 0) => blobCount' = blobCount
          /\ \A g \in GateIds :
                (gates'[g].consumed /\ ~gates[g].consumed) => gates[g].health = 0]_vars

\* A damaged gate with health left has been handed to applyEffect, and
\* checkCollision has succeeded on it.
C25_Witness ==
    /\ lastApply.called /\ lastApply.health > 0
    /\ gates[lastApply.gate].health \in 1..(maxHealth - 1)
    /\ lastCheck.called /\ lastCheck.gate = lastApply.gate /\ lastCheck.value
    /\ ~gates[lastApply.gate].consumed
    /\ lastApply.after = lastApply.before

\* C26 as stated: every Gate and Enemy the spawner added that is still in
\* Game.entities belongs to a group of obstacleQueue.
C26_EveryObstacleInAGroup ==
    \A i \in 1..Len(obstacleEntities) :
        \E g \in 1..Len(obstacleQueue) :
            \E j \in 1..Len(obstacleQueue[g].obstacles) :
                obstacleQueue[g].obstacles[j].id = obstacleEntities[i].id

\* C27: whenever the queue holds groups (initialize() has run and no clear()
\* since) it holds exactly maxObstacleGroups of them, consecutive groups are
\* groupSpacing apart and the next spawn position is groupSpacing behind the
\* newest; an update() spawns as many groups as it removes, at most one, and
\* the group it spawns is the newest of the queue.
C27_QueueShape ==
    /\ obstacleQueue # <<>> =>
          /\ Len(obstacleQueue) = maxObstacleGroups
          /\ \A g \in 1..(Len(obstacleQueue) - 1) :
                obstacleQueue[g + 1].spawnZ - obstacleQueue[g].spawnZ = groupSpacing
          /\ nextSpawnZ - obstacleQueue[Len(obstacleQueue)].spawnZ = groupSpacing
    /\ spawnLog.op = "update" =>
          /\ spawnLog.spawnedGroups = spawnLog.removedGroups
          /\ spawnLog.removedGroups <= 1
          /\ spawnLog.removedGroups = 1 =>
                /\ obstacleQueue # <<>>
                /\ spawnLog.spawnedAt = <<obstacleQueue[Len(obstacleQueue)].spawnZ>>

\* An update() has removed the oldest group and spawned a new one.
C27_Witness ==
    /\ spawnLog.op = "update"
    /\ spawnLog.removedGroups = 1
    /\ Len(obstacleQueue) = maxObstacleGroups
    /\ obstacleQueue[1].spawnZ > 5 * metersToWorld

\* C28 as stated: in the order Player.draw draws the blobs, a blob whose
\* groundZ exceeds another's by epsilon or more comes before it, and two blobs
\* whose groundZ differ by less than epsilon come in ascending id order.
C28_FarBlobsFirst ==
    (callArgs.fn = "draw" /\ callResult.done) =>
        \A i, j \in 1..Len(callResult.value) :
            LET a == callResult.value[i]
                b == callResult.value[j]
                ga == a.currentZ - a.sizeMultiplier \div 2
                gb == b.currentZ - b.sizeMultiplier \div 2
            IN  /\ ga - gb >= epsilon => i < j
                /\ (ga - gb < epsilon /\ gb - ga < epsilon /\ a.id < b.id) => i < j

\* C29: a step taken outside PLAYING leaves the blob count, every gate's
\* consumed flag and health and every enemy's neutralized flag as they were.
C29_NoCollisionsOutsidePlay ==
    [][gstate # "PLAYING" =>
          /\ blobCount' = blobCount
          /\ \A g \in GateIds : /\ gates'[g].consumed = gates[g].consumed
                                /\ gates'[g].health = gates[g].health
          /\ \A e \in DOMAIN enemyConsumed : enemyConsumed'[e] = enemyConsumed[e]]_vars

\* A tick outside PLAYING had the player inside the box of an unconsumed gate,
\* a bullet on a gate and a blob on an enemy that is not neutralized.
C29_Witness ==
    /\ gstate # "PLAYING"
    /\ ~lastPass.ran
    /\ lastPass.unchecked.gate /\ lastPass.unchecked.bullet /\ lastPass.unchecked.enemy
    /\ \E g \in GateIds : ~gates[g].consumed /\ gates[g].health > 0
    /\ \E e \in DOMAIN enemyConsumed : ~enemyConsumed[e]

\* C30 as stated: Game.entities and Renderer.entities contain the same
\* entities.
C30_SameEntities ==
    {gEntities[i] : i \in 1..Len(gEntities)} = {rEntities[i] : i \in 1..Len(rEntities)}

InGateBox(g, x, z) ==
    /\ z > g.z - gateDepth /\ z < g.z + gateDepth
    /\ 2 * x >= 2 * g.x - g.width /\ 2 * x <= 2 * g.x + g.width

\* C10: on an unconsumed gate checkCollision returns true exactly when the
\* player's centre or some swarm blob lies in the gate's box, whatever the
\* camera pose; with player and gate at z = 0, gate width 200 (half-width
\* 100) and the swarm at the player's position, x = 0 gives true and
\* x = 500 gives false.
C10_GateBoxTest ==
    (cResult.called /\ ~cGate.consumed) =>
        /\ cResult.value = (\/ InGateBox(cGate, cPlayer.x, cPlayer.z)
                      \/ \E i \in 1..Len(cBlobs) :
                            InGateBox(cGate, cBlobs[i].currentX, cBlobs[i].currentZ))
        /\ (/\ cPlayer.z = 0 /\ cGate.z = 0 /\ cGate.width = 200
            /\ \A i \in 1..Len(cBlobs) :
                  cBlobs[i].currentX = cPlayer.x /\ cBlobs[i].currentZ = cPlayer.z)
              => /\ cPlayer.x = 0 => cResult.value
                 /\ cPlayer.x = 500 => ~cResult.value

C10_Witness ==
    /\ cResult.called /\ cResult.value
    /\ ~cGate.consumed
    /\ ~InGateBox(cGate, cPlayer.x, cPlayer.z)
    /\ Len(cBlobs) = 2
    /\ ~InGateBox(cGate, cBlobs[1].currentX, cBlobs[1].currentZ)
    /\ cCamera # [x |-> 0, z |-> -133]

====
